---- MODULE Spec2Model ----
(***************************************************************************)
(* Model of the crawl orchestration engine of space_crawl4ai:              *)
(* SimplifiedCrawl4AIService (src/src/services/crawl4ai.ts) as one run of  *)
(* crawlUrl against a nondeterministic crawl backend, abort signal and     *)
(* persistence adapter.  Every action is one continuation of the async     *)
(* code: it runs from one await to the next.                               *)
(***************************************************************************)
EXTENDS Integers, Sequences, FiniteSets, Bags, TLC

\* ------------------------------------------------------------------ bounds

\* at most this many POST /crawl responses of one run carry a task_id
MaxAsyncTasks == 1

\* at most this many entries of one synchronous results array are null
MaxNullEntries == 1

\* at most this many upserts of one run fail
MaxSaveFailures == 1

\* at most this many emit() calls reach the emitter while dashboards come and go
MaxEmits == 3

\* the texts handed to chunkText have at most this many characters
MaxTextLen == 6

\* the token bounds handed to chunkText are 1 to this
MaxTokenBound == 3

\* how many times the Crawl button is pressed
MaxRuns == 3

\* ------------------------------------------------------- program constants

\* pollForResults(taskId, originalUrl, maxAttempts = 15)
DefaultMaxAttempts == 15

\* crawlManyWithBatching: const batchSize = 5
ManualBatchSize == 5

\* parseInt(import.meta.env.VITE_CRAWL4AI_MAX_PAGES || '5000')
DefaultMaxPages == 5000

\* chunkText(text, maxTokens = 4500)
DefaultMaxTokens == 4500

\* ---------------------------------------------------------------- helpers

Min(a, b) == IF a < b THEN a ELSE b

\* Array.prototype.slice(from, to) with 0-based, end-exclusive indices
Slice(s, from, to) == SubSeq(s, from + 1, Min(to, Len(s)))

RECURSIVE Flatten(_)
Flatten(ss) == IF ss = <<>> THEN <<>> ELSE Head(ss) \o Flatten(Tail(ss))

RECURSIVE SelectIdx(_, _, _)
\* the indices i >= from of s, in order, with s[i] \in keep
SelectIdx(s, keep, from) ==
  IF from > Len(s) THEN <<>>
  ELSE IF s[from] \in keep THEN <<from>> \o SelectIdx(s, keep, from + 1)
  ELSE SelectIdx(s, keep, from + 1)

Range(s) == {s[i] : i \in DOMAIN s}

\* -------------------------------------------------------------- addresses

(* The addresses of a run are drawn from this table; an address is named   *)
(* by its index.  abs: new URL(str) parses it (it is absolute); http: the  *)
(* string starts with 'http'; segs: pathname.split('/').filter(Boolean);   *)
(* ext: the extension the pathname ends with; frag: the string holds '#'.  *)
UrlTable ==
  << [str |-> "https://ex.com/",        abs |-> TRUE,  http |-> TRUE,  host |-> "ex.com",
      segs |-> <<>>,                   ext |-> "",     frag |-> FALSE],
     [str |-> "https://ex.com/docs/a",  abs |-> TRUE,  http |-> TRUE,  host |-> "ex.com",
      segs |-> <<"docs", "a">>,        ext |-> "",     frag |-> FALSE],
     [str |-> "https://ex.com/b/c",     abs |-> TRUE,  http |-> TRUE,  host |-> "ex.com",
      segs |-> <<"b", "c">>,           ext |-> "",     frag |-> FALSE],
     [str |-> "https://ex.com/d",       abs |-> TRUE,  http |-> TRUE,  host |-> "ex.com",
      segs |-> <<"d">>,                ext |-> "",     frag |-> FALSE],
     [str |-> "https://other.com/x",    abs |-> TRUE,  http |-> TRUE,  host |-> "other.com",
      segs |-> <<"x">>,                ext |-> "",     frag |-> FALSE],
     [str |-> "https://ex.com/f.pdf",   abs |-> TRUE,  http |-> TRUE,  host |-> "ex.com",
      segs |-> <<"f.pdf">>,            ext |-> ".pdf", frag |-> FALSE],
     [str |-> "https://ex.com/login",   abs |-> TRUE,  http |-> TRUE,  host |-> "ex.com",
      segs |-> <<"login">>,            ext |-> "",     frag |-> FALSE],
     [str |-> "/rel",                   abs |-> FALSE, http |-> FALSE, host |-> "",
      segs |-> <<"rel">>,              ext |-> "",     frag |-> FALSE],
     [str |-> "https://ex.com/e",       abs |-> TRUE,  http |-> TRUE,  host |-> "ex.com",
      segs |-> <<"e">>,                ext |-> "",     frag |-> FALSE],
     [str |-> "https://ex.com/g/h",     abs |-> TRUE,  http |-> TRUE,  host |-> "ex.com",
      segs |-> <<"g", "h">>,           ext |-> "",     frag |-> FALSE],
     [str |-> "ex.com",                 abs |-> FALSE, http |-> FALSE, host |-> "",
      segs |-> <<>>,                   ext |-> "",     frag |-> FALSE],
     [str |-> "https://ex.com/reference/r", abs |-> TRUE, http |-> TRUE, host |-> "ex.com",
      segs |-> <<"reference", "r">>,   ext |-> "",     frag |-> FALSE],
     [str |-> "https://ex.com/rel",     abs |-> TRUE,  http |-> TRUE,  host |-> "ex.com",
      segs |-> <<"rel">>,              ext |-> "",     frag |-> FALSE] >>

UrlIds == DOMAIN UrlTable

\* the seed addresses a caller passes: a well-formed one and one without a scheme
SeedUrls == {1, 11}

\* the links.internal arrays a backend result may carry
LinkLists ==
  { <<>>,
    <<2>>,
    <<4, 2, 1, 6>>,
    <<3, 7, 5, 8, 4>>,
    <<2, 3, 4, 9, 10>>,
    <<3, 12>>,
    <<6, 5>> }

skipExtensions ==
  { ".pdf", ".doc", ".docx", ".xls", ".xlsx", ".ppt", ".pptx",
    ".zip", ".rar", ".tar", ".gz", ".exe", ".dmg", ".pkg",
    ".jpg", ".jpeg", ".png", ".gif", ".svg", ".webp",
    ".mp3", ".mp4", ".avi", ".mov", ".wav", ".flv" }

\* the words of skipPatterns' three path alternations
skipWords ==
  { "login", "register", "signup", "signin", "auth",
    "cart", "checkout", "payment", "billing", "admin", "wp-admin" }

\* the extensions of skipPatterns' last pattern
skipPatternExtensions == { ".css", ".js", ".json", ".txt", ".xml" }

\* the words of hasImportantKeywords' pattern
importantKeywords ==
  { "docs", "documentation", "api", "guide", "tutorial", "blog", "news", "product" }

\* new URL(u) does not throw
Parses(u) == UrlTable[u].abs

\* skipPatterns.some(pattern => pattern.test(url))
MatchesSkipPattern(u) ==
  \/ \E i \in DOMAIN UrlTable[u].segs : UrlTable[u].segs[i] \in skipWords
  \/ UrlTable[u].frag
  \/ UrlTable[u].ext \in skipPatternExtensions

\* FilterVerdict, had it not compared the hostname with the base's
FilterVerdictAnyHost(u, base) ==
  IF ~Parses(u) THEN "invalid"
  ELSE IF UrlTable[u].ext \in skipExtensions THEN "file_extension"
  ELSE IF MatchesSkipPattern(u) THEN "low_value_pattern"
  ELSE "keep"

\* the callback of urls.filter in filterAndPrioritizeUrls: "keep", or why not
FilterVerdict(u, base) ==
  IF ~Parses(u) THEN "invalid"
  ELSE IF UrlTable[u].host # UrlTable[base].host THEN "domain"
  ELSE IF UrlTable[u].ext \in skipExtensions THEN "file_extension"
  ELSE IF MatchesSkipPattern(u) THEN "low_value_pattern"
  ELSE "keep"

\* hasImportantKeywords ? pathDepth - 1 : pathDepth
Priority(u) ==
  LET pathDepth == Len(UrlTable[u].segs)
      hasImportantKeywords ==
        \E i \in DOMAIN UrlTable[u].segs : UrlTable[u].segs[i] \in importantKeywords
  IN IF hasImportantKeywords THEN pathDepth - 1 ELSE pathDepth

RECURSIVE InsertSorted(_, _)
\* u put behind every element whose priority is not larger: a stable sort step
InsertSorted(sorted, u) ==
  IF sorted = <<>> THEN <<u>>
  ELSE IF Priority(Head(sorted)) <= Priority(u)
       THEN <<Head(sorted)>> \o InsertSorted(Tail(sorted), u)
       ELSE <<u>> \o sorted

RECURSIVE SortByPriority(_)
\* .sort((a, b) => a.priority - b.priority), which is stable
SortByPriority(s) ==
  IF s = <<>> THEN <<>>
  ELSE InsertSorted(SortByPriority(SubSeq(s, 1, Len(s) - 1)), s[Len(s)])

RECURSIVE FilterSeq(_, _)
FilterSeq(s, base) ==
  IF s = <<>> THEN <<>>
  ELSE IF FilterVerdict(Head(s), base) = "keep"
       THEN <<Head(s)>> \o FilterSeq(Tail(s), base)
       ELSE FilterSeq(Tail(s), base)

\* filterAndPrioritizeUrls(urls, baseUrl) for a baseUrl that parses
filterAndPrioritizeUrls(us, base, maxUrls) ==
  Slice(SortByPriority(FilterSeq(us, base)), 0, maxUrls)

RECURSIVE Dedup(_, _)
\* Array.from(new Set(s)): first occurrences, in order
Dedup(s, seen) ==
  IF s = <<>> THEN <<>>
  ELSE IF Head(s) \in seen THEN Dedup(Tail(s), seen)
       ELSE <<Head(s)>> \o Dedup(Tail(s), seen \cup {Head(s)})

RECURSIVE HttpOnly(_)
\* .filter(href => href && href.startsWith('http'))
HttpOnly(s) ==
  IF s = <<>> THEN <<>>
  ELSE IF UrlTable[Head(s)].http THEN <<Head(s)>> \o HttpOnly(Tail(s))
       ELSE HttpOnly(Tail(s))

RECURSIVE splitBatchesShort(_, _, _)
\* splitBatches, had slice's end been taken as inclusive
splitBatchesShort(us, size, i) ==
  IF i < Len(us) THEN <<Slice(us, i, i + size - 1)>> \o splitBatchesShort(us, size, i + size)
  ELSE <<>>

RECURSIVE splitBatches(_, _, _)
\* for (let i = 0; i < urls.length; i += maxBatchSize) batches.push(urls.slice(i, i + maxBatchSize))
splitBatches(us, size, i) ==
  IF i < Len(us) THEN <<Slice(us, i, i + size)>> \o splitBatches(us, size, i + size)
  ELSE <<>>

\* ------------------------------------------------------------------ state

\* the runs whose behaviour is explored: crawl type, seed, the three
\* environment settings the batch scheduler and the link filter read, whether
\* the backend's result objects carry a content field, whether the backend
\* answers a POST /crawl with a task handle at times, and the embeddings
\* service: it returns vectors ("ok"), its calls throw ("down"), or it has no
\* client (isConfigured() is false, "unconfigured")
Configs ==
  { [crawlType |-> "single",     url |-> 1,  maxBatchSize |-> 50, maxRetries |-> 3, maxUrls |-> DefaultMaxPages,
     contentField |-> FALSE, taskHandles |-> TRUE, embeddings |-> "ok"],
    [crawlType |-> "single",     url |-> 11, maxBatchSize |-> 50, maxRetries |-> 3, maxUrls |-> DefaultMaxPages,
     contentField |-> TRUE,  taskHandles |-> TRUE, embeddings |-> "down"],
    [crawlType |-> "smart_site", url |-> 1,  maxBatchSize |-> 1,  maxRetries |-> 2, maxUrls |-> 3,
     contentField |-> TRUE,  taskHandles |-> FALSE, embeddings |-> "down"],
    [crawlType |-> "smart_site", url |-> 1,  maxBatchSize |-> 1,  maxRetries |-> 1, maxUrls |-> 2,
     contentField |-> TRUE,  taskHandles |-> TRUE, embeddings |-> "ok"],
    [crawlType |-> "smart_site", url |-> 1,  maxBatchSize |-> 2,  maxRetries |-> 1, maxUrls |-> 4,
     contentField |-> FALSE, taskHandles |-> FALSE, embeddings |-> "unconfigured"],
    [crawlType |-> "smart_site", url |-> 1,  maxBatchSize |-> 5,  maxRetries |-> 1, maxUrls |-> DefaultMaxPages,
     contentField |-> FALSE, taskHandles |-> FALSE, embeddings |-> "down"],
    [crawlType |-> "smart_site", url |-> 1,  maxBatchSize |-> 2,  maxRetries |-> 0, maxUrls |-> 4,
     contentField |-> FALSE, taskHandles |-> FALSE, embeddings |-> "ok"],
    [crawlType |-> "smart_site", url |-> 1,  maxBatchSize |-> 50, maxRetries |-> 3, maxUrls |-> 2,
     contentField |-> TRUE,  taskHandles |-> TRUE, embeddings |-> "unconfigured"],
    [crawlType |-> "smart_site", url |-> 11, maxBatchSize |-> 2,  maxRetries |-> 1, maxUrls |-> DefaultMaxPages,
     contentField |-> FALSE, taskHandles |-> TRUE, embeddings |-> "ok"] }

VARIABLES
  cfg,          \* config and environment of the run
  pc,           \* the await the run is suspended at
  aborted,      \* signal.aborted
  events,       \* everything emit() was called with, in order
  posts,        \* every POST /crawl issued, in order
  result,       \* the CrawlResult crawlUrl's promise settled with
  settled,      \* "pending", "resolved" or "rejected"
  nativeError,  \* the error smartSiteCrawlNative threw, <<>> if none
  urls,         \* the prioritized list handed to the running scheduler
  batches,      \* intelligentBatchCrawl: batches
  batchIndex,   \* intelligentBatchCrawl: batchIndex
  retryCount,   \* intelligentBatchCrawl: retryCount
  batchSuccess, \* intelligentBatchCrawl: batchSuccess
  allResults,   \* intelligentBatchCrawl: allResults
  curResults,   \* response.data.results being processed
  resIdx,       \* the entry of curResults (or results) whose save is awaited
  pollAttempt,  \* pollForResults: attempt (of the batch's task)
  lastPoll,     \* pollForResults: the answer to the batch's task's last status query
  results,      \* crawlManyWithBatching: results
  reqs,         \* crawlManyWithBatching: the promises of the running batch
  floating,     \* saveIndividualPages calls nobody awaits
  store,        \* crawled_pages: the bag of rows stored
  tasks,        \* POST /crawl responses that carried a task_id so far
  gaveUp,       \* batch numbers whose retries were exhausted
  saveFailures, \* upserts that failed so far
  app,          \* App.handleCrawl: where it stands with the result of crawlUrl
  listeners,    \* EventEmitter: listeners, the callbacks registered per event name
  mounted,      \* the dashboards whose effect has subscribed and not yet cleaned up
  emitted,      \* every emit() call on the emitter: its event name and who was mounted
  received,     \* per callback, the emit() calls it was invoked for, in order
  entry,        \* the content fields of a backend result entry ('' if absent)
  saved,        \* the content written for the entry, and the path that wrote it
  text,         \* chunkText: text, as its characters
  maxTokens,    \* chunkText: maxTokens
  chunks,       \* chunkText: whether it has returned, and the array it returned
  embed,        \* generateEmbedding: its position, the inputs it sent, the vectors it got, its result
  shell         \* App: isCrawling, crawlController, and the crawlUrl calls handleCrawl has made

batchVars == <<urls, batches, batchIndex, retryCount, batchSuccess, allResults, curResults, resIdx,
               pollAttempt, lastPoll>>
manualVars == <<results, reqs>>
emitterVars == <<listeners, mounted, emitted, received>>
runVars == <<cfg, pc, aborted, events, posts, result, settled, nativeError,
             batchVars, manualVars, floating, store, tasks, gaveUp, saveFailures, app>>
contentVars == <<entry, saved>>
chunkVars == <<text, maxTokens, chunks, embed>>
vars == <<runVars, emitterVars, contentVars, chunkVars, shell>>

\* ---------------------------------------------------------- page content

\* a || b on strings
Or(a, b) == IF a # "" THEN a ELSE b

\* the result entries a backend may return: each content field is absent or
\* holds a text of its own (markdown is an object with raw_markdown and
\* fit_markdown)
Entries ==
  [extracted_content : {"", "extracted"}, raw_markdown : {"", "raw"}, fit_markdown : {"", "fit"},
   cleaned_html : {"", "cleaned"}, content : {"", "content"}, html : {"", "html"}]

NoFields == [extracted_content |-> "", raw_markdown |-> "", fit_markdown |-> "",
             cleaned_html |-> "", content |-> "", html |-> ""]

NoPage == [path |-> "", content |-> ""]

\* saveIndividualPage and saveIndividualPages: the CrawlResult they build,
\* content = fitMarkdown || rawMarkdown || extractedContent || htmlContent
pageResult(e) ==
  LET rawMarkdown == e.raw_markdown
      fitMarkdown == e.fit_markdown
      htmlContent == Or(e.cleaned_html, e.html)
      extractedContent == e.extracted_content
  IN [content |-> Or(fitMarkdown, Or(rawMarkdown, Or(extractedContent, htmlContent))),
      markdown |-> rawMarkdown, rawMarkdown |-> rawMarkdown, fitMarkdown |-> fitMarkdown]

\* processSingleResult: content and markdown of the CrawlResult it builds,
\* which has no rawMarkdown and no fitMarkdown field
singleResult(e) ==
  [content |-> Or(e.extracted_content, Or(e.raw_markdown, Or(e.cleaned_html, e.content))),
   markdown |-> Or(e.raw_markdown, e.fit_markdown), rawMarkdown |-> "", fitMarkdown |-> ""]

\* saveCrawlResultAsDocument: actualContent, the content of the row
actualContent(crawlResult) ==
  Or(crawlResult.fitMarkdown, Or(crawlResult.rawMarkdown,
     Or(crawlResult.markdown, crawlResult.content)))

\* saveIndividualPage stores the entry if its content is not blank
ContentSaveIndividualPage ==
  /\ saved = NoPage
  /\ pageResult(entry).content # ""
  /\ saved' = [path |-> "saveIndividualPage", content |-> actualContent(pageResult(entry))]
  /\ UNCHANGED <<runVars, emitterVars, entry, chunkVars, shell>>

\* saveIndividualPages, which repeats the code of saveIndividualPage, stores
\* the entry if its content is not blank
ContentSaveIndividualPages ==
  /\ saved = NoPage
  /\ pageResult(entry).content # ""
  /\ saved' = [path |-> "saveIndividualPages", content |-> actualContent(pageResult(entry))]
  /\ UNCHANGED <<runVars, emitterVars, entry, chunkVars, shell>>

\* processSingleResult builds the result of a single-page crawl and
\* handleCrawl stores it if it has content
ContentProcessSingleResult ==
  /\ saved = NoPage
  /\ singleResult(entry).content # ""
  /\ saved' = [path |-> "processSingleResult", content |-> actualContent(singleResult(entry))]
  /\ UNCHANGED <<runVars, emitterVars, entry, chunkVars, shell>>

\* ---------------------------------------------------------------- chunkText

\* the characters of the texts: a letter, the two kinds of whitespace that
\* tell a space from a line break, and a sentence end
Alphabet == {"a", " ", "\n", "."}

\* \s
Whitespace == {" ", "\n"}

\* the characters of [.,;:!?()[\]{}"'-] in the alphabet
Punctuation == {"."}

\* the characters of [.!?] in the alphabet
Terminators == {"."}

RECURSIVE CountIn(_, _)
\* (text.match(/[...]/g) || []).length
CountIn(t, class) ==
  IF t = <<>> THEN 0
  ELSE (IF Head(t) \in class THEN 1 ELSE 0) + CountIn(Tail(t), class)

RECURSIVE DropWhile(_, _)
DropWhile(t, class) ==
  IF t # <<>> /\ Head(t) \in class THEN DropWhile(Tail(t), class) ELSE t

RECURSIVE splitRuns(_, _, _)
\* text.split(/[class]+/): the pieces between the runs of characters of class
splitRuns(t, class, cur) ==
  IF t = <<>> THEN <<cur>>
  ELSE IF Head(t) \in class THEN <<cur>> \o splitRuns(DropWhile(t, class), class, <<>>)
  ELSE splitRuns(Tail(t), class, Append(cur, Head(t)))

RECURSIVE split(_, _, _)
\* text.split(sep) for a separator string
split(t, sep, cur) ==
  IF t = <<>> THEN <<cur>>
  ELSE IF Len(t) >= Len(sep) /\ SubSeq(t, 1, Len(sep)) = sep
       THEN <<cur>> \o split(SubSeq(t, Len(sep) + 1, Len(t)), sep, <<>>)
  ELSE split(Tail(t), sep, Append(cur, Head(t)))

RECURSIVE trimEnd(_)
trimEnd(t) ==
  IF t # <<>> /\ t[Len(t)] \in Whitespace THEN trimEnd(SubSeq(t, 1, Len(t) - 1)) ELSE t

\* text.trim()
trim(t) == trimEnd(DropWhile(t, Whitespace))

\* estimateTokens: Math.ceil(words + punctuation + whitespace / 4)
estimateTokens(t) ==
  LET words == Len(splitRuns(t, Whitespace, <<>>))
      punctuation == CountIn(t, Punctuation)
      whitespace == CountIn(t, Whitespace)
  IN words + punctuation + (whitespace + 3) \div 4

\* a + (a ? sep : '') + b
Join(a, sep, b) == a \o (IF a # <<>> THEN sep ELSE <<>>) \o b

\* if (currentChunk) { chunks.push(currentChunk.trim()); }
pushChunk(st) ==
  IF st.currentChunk # <<>> THEN Append(st.chunks, trim(st.currentChunk)) ELSE st.chunks

RECURSIVE wordsLoop(_, _, _)
\* for (const word of words): the forced split of a sentence
wordsLoop(st, words, max) ==
  IF words = <<>> THEN st
  ELSE LET word == Head(words)
           testWord == Join(st.currentChunk, <<" ">>, word)
       IN IF estimateTokens(testWord) <= max
          THEN wordsLoop([st EXCEPT !.currentChunk = testWord], Tail(words), max)
          ELSE wordsLoop([chunks |-> pushChunk(st), currentChunk |-> word], Tail(words), max)

RECURSIVE sentencesLoop(_, _, _)
\* for (const sentence of sentences): the split of a paragraph
sentencesLoop(st, sentences, max) ==
  IF sentences = <<>> THEN st
  ELSE LET sentence == Head(sentences)
           testSentence == Join(st.currentChunk, <<".", " ">>, sentence)
           pushed == [chunks |-> pushChunk(st), currentChunk |-> <<>>]
       IN IF estimateTokens(testSentence) <= max
          THEN sentencesLoop([st EXCEPT !.currentChunk = testSentence], Tail(sentences), max)
          ELSE IF estimateTokens(sentence) > max
          THEN sentencesLoop(wordsLoop(pushed, split(sentence, <<" ">>, <<>>), max),
                             Tail(sentences), max)
          ELSE sentencesLoop([pushed EXCEPT !.currentChunk = sentence], Tail(sentences), max)

RECURSIVE paragraphsLoop(_, _, _)
\* for (const paragraph of paragraphs)
paragraphsLoop(st, paragraphs, max) ==
  IF paragraphs = <<>> THEN st
  ELSE LET paragraph == Head(paragraphs)
           testChunk == Join(st.currentChunk, <<"\n", "\n">>, paragraph)
           pushed == [chunks |-> pushChunk(st), currentChunk |-> <<>>]
       IN IF estimateTokens(testChunk) <= max
          THEN paragraphsLoop([st EXCEPT !.currentChunk = testChunk], Tail(paragraphs), max)
          ELSE IF estimateTokens(paragraph) > max
          THEN paragraphsLoop(sentencesLoop(pushed, splitRuns(paragraph, Terminators, <<>>), max),
                              Tail(paragraphs), max)
          ELSE paragraphsLoop([pushed EXCEPT !.currentChunk = paragraph], Tail(paragraphs), max)

\* chunkText(text, maxTokens)
chunkText(t, max) ==
  IF estimateTokens(t) <= max THEN <<t>>
  ELSE LET st == paragraphsLoop([chunks |-> <<>>, currentChunk |-> <<>>],
                                split(t, <<"\n", "\n">>, <<>>), max)
           all == IF trim(st.currentChunk) # <<>>
                  THEN Append(st.chunks, trim(st.currentChunk)) ELSE st.chunks
       IN SelectSeq(all, LAMBDA chunk : Len(chunk) > 0)

RECURSIVE Texts(_)
\* the texts of at most n characters
Texts(n) ==
  IF n = 0 THEN {<<>>}
  ELSE Texts(n - 1) \cup {Append(t, c) : t \in {u \in Texts(n - 1) : Len(u) = n - 1}, c \in Alphabet}

NotChunked == [returned |-> FALSE, pieces |-> <<>>]

\* chunkText is called and returns
ChunkText ==
  /\ ~chunks.returned
  /\ chunks' = [returned |-> TRUE, pieces |-> chunkText(text, maxTokens)]
  /\ UNCHANGED <<runVars, emitterVars, contentVars, text, maxTokens, embed, shell>>

\* --------------------------------------------------------- generateEmbedding

\* the vectors client.embeddings.create may answer with: one model, one
\* dimension
Vectors == {<<0, 1>>, <<2, 1>>, <<1, 3>>}

NotEmbedded == [state |-> "idle", requests |-> <<>>, chunkEmbeddings |-> <<>>, embedding |-> <<>>]

\* the input of one request: the text, cut to 6000 * 3 characters when its
\* estimate is over 7000
inputText(t) == IF estimateTokens(t) > 7000 THEN Slice(t, 0, 18000) ELSE t

\* avgEmbedding after the two loops over chunkEmbeddings, had the second loop
\* been left out
averageUnnormalised(chunkEmbeddings) ==
  LET RECURSIVE sum(_, _)
      sum(es, i) == IF es = <<>> THEN 0 ELSE Head(es)[i] + sum(Tail(es), i)
  IN [i \in 1..Len(chunkEmbeddings[1]) |-> [num |-> sum(chunkEmbeddings, i), den |-> 1]]

\* avgEmbedding: an array as long as the first vector, every vector added to
\* it component by component, every component divided by the number of
\* vectors; a quotient is kept as numerator and denominator
avgEmbedding(chunkEmbeddings) ==
  LET RECURSIVE sum(_, _)
      sum(es, i) == IF es = <<>> THEN 0 ELSE Head(es)[i] + sum(Tail(es), i)
  IN [i \in 1..Len(chunkEmbeddings[1]) |->
        [num |-> sum(chunkEmbeddings, i), den |-> Len(chunkEmbeddings)]]

\* one turn of the loop over the chunks: the request for the next chunk is
\* sent and answered with a vector, or it fails and generateEmbedding throws
EmbeddingsCreate ==
  /\ chunks.returned
  /\ Len(chunks.pieces) > 1
  /\ embed.state = "idle"
  /\ Len(embed.requests) < Len(chunks.pieces)
  /\ LET chunk == chunks.pieces[Len(embed.requests) + 1]
         sent == [embed EXCEPT !.requests = Append(@, inputText(chunk))]
     IN \/ \E v \in Vectors : embed' = [sent EXCEPT !.chunkEmbeddings = Append(@, v)]
        \/ embed' = [sent EXCEPT !.state = "failed"]
  /\ UNCHANGED <<runVars, emitterVars, contentVars, text, maxTokens, chunks, shell>>

\* after the loop: the vectors are averaged and the average returned
AverageEmbeddings ==
  /\ chunks.returned
  /\ Len(chunks.pieces) > 1
  /\ embed.state = "idle"
  /\ Len(embed.requests) = Len(chunks.pieces)
  /\ embed' = [embed EXCEPT !.state = "returned",
                            !.embedding = avgEmbedding(embed.chunkEmbeddings)]
  /\ UNCHANGED <<runVars, emitterVars, contentVars, text, maxTokens, chunks, shell>>

\* the else branch: one request for the text, its vector returned as it is
SingleEmbedding ==
  /\ chunks.returned
  /\ Len(chunks.pieces) <= 1
  /\ embed.state = "idle"
  /\ LET sent == [embed EXCEPT !.requests = Append(@, inputText(text))]
     IN \/ \E v \in Vectors :
             embed' = [sent EXCEPT !.state = "returned", !.chunkEmbeddings = <<v>>,
                                   !.embedding = [i \in DOMAIN v |-> [num |-> v[i], den |-> 1]]]
        \/ embed' = [sent EXCEPT !.state = "failed"]
  /\ UNCHANGED <<runVars, emitterVars, contentVars, text, maxTokens, chunks, shell>>

\* ------------------------------------------------------------ App, the page

\* the state of App before the first crawl: no controller (0), no call of
\* crawlUrl made
NotStarted == [isCrawling |-> FALSE, crawlController |-> 0, runs |-> <<>>]

\* the Crawl button, rendered while isCrawling is false, is pressed (or Enter,
\* guarded by !isCrawling): isCrawling is set, a new controller made and kept,
\* crawlUrl called on the shared service with the controller's signal
HandleCrawl ==
  /\ ~shell.isCrawling
  /\ Len(shell.runs) < MaxRuns
  /\ shell' = [isCrawling |-> TRUE,
               crawlController |-> Len(shell.runs) + 1,
               runs |-> Append(shell.runs, [aborted |-> FALSE, stage |-> "crawlUrl"])]
  /\ UNCHANGED <<runVars, emitterVars, contentVars, text, maxTokens, chunks, embed>>

\* the finally block of handleCrawl
handleCrawlFinally(sh, r) ==
  [isCrawling |-> FALSE, crawlController |-> 0,
   runs |-> [sh.runs EXCEPT ![r].stage = "finished"]]

\* the promise of a crawlUrl call resolves: handleCrawl goes on to the awaited
\* save of a result with content, or through to its finally block
HandleCrawlResolved ==
  /\ \E r \in DOMAIN shell.runs :
       /\ shell.runs[r].stage = "crawlUrl"
       /\ \/ shell' = [shell EXCEPT !.runs[r].stage = "saving"]
          \/ shell' = handleCrawlFinally(shell, r)
  /\ UNCHANGED <<runVars, emitterVars, contentVars, text, maxTokens, chunks, embed>>

\* the save of handleCrawl returns or throws: on to the finally block
HandleCrawlFinally ==
  /\ \E r \in DOMAIN shell.runs :
       /\ shell.runs[r].stage = "saving"
       /\ shell' = handleCrawlFinally(shell, r)
  /\ UNCHANGED <<runVars, emitterVars, contentVars, text, maxTokens, chunks, embed>>

\* the cancel button, rendered while isCrawling is true, is pressed: the kept
\* controller is aborted and dropped, isCrawling set to false
HandleCancelCrawl ==
  /\ shell.isCrawling
  /\ shell.crawlController # 0
  /\ shell' = [isCrawling |-> FALSE, crawlController |-> 0,
               runs |-> [shell.runs EXCEPT ![shell.crawlController].aborted = TRUE]]
  /\ UNCHANGED <<runVars, emitterVars, contentVars, text, maxTokens, chunks, embed>>

\* -------------------------------------------------------------- observers

\* the CrawlStatusDashboard instances that may be on screen
Dashboards == {1, 2}

\* event names the effect of CrawlStatusDashboard subscribes a handler to, in
\* its order (two of its ten)
DashboardEvents == <<"url_crawled", "crawl_complete">>

\* the event names emit() is called with: the two above and one the dashboard
\* has no handler for
EmittedEvents == {"url_crawled", "crawl_complete", "discovery_error"}

\* the handler closures: one per dashboard and event name
Callbacks == Dashboards \X Range(DashboardEvents)

\* off(event, callback), had it left the array as it is
offKeeps(l, event, callback) == l

\* on(event, callback): the array is made if missing, the callback pushed
on(l, event, callback) ==
  IF event \in DOMAIN l THEN [l EXCEPT ![event] = Append(@, callback)]
  ELSE [e \in DOMAIN l \cup {event} |-> IF e = event THEN <<callback>> ELSE l[e]]

\* off(event, callback): every occurrence of the callback is filtered out
off(l, event, callback) ==
  IF event \in DOMAIN l THEN [l EXCEPT ![event] = SelectSeq(@, LAMBDA cb : cb # callback)]
  ELSE l

RECURSIVE forEach(_, _, _)
\* this.listeners[event].forEach(callback => callback(data)): the callbacks
\* run one after the other, each noting the call it was invoked for
forEach(cbs, rcv, call) ==
  IF cbs = <<>> THEN rcv
  ELSE forEach(Tail(cbs), [rcv EXCEPT ![Head(cbs)] = Append(@, call)], call)

RECURSIVE subscribe(_, _, _)
\* the effect of dashboard d: crawlService.on(name, handler) for each name
subscribe(l, d, names) ==
  IF names = <<>> THEN l
  ELSE subscribe(on(l, Head(names), <<d, Head(names)>>), d, Tail(names))

RECURSIVE unsubscribe(_, _, _)
\* the cleanup of the effect of dashboard d: crawlService.off(name, handler)
unsubscribe(l, d, names) ==
  IF names = <<>> THEN l
  ELSE unsubscribe(off(l, Head(names), <<d, Head(names)>>), d, Tail(names))

\* isActive turns true: the effect of dashboard d runs
DashboardMount ==
  /\ \E d \in Dashboards \ mounted :
       /\ listeners' = subscribe(listeners, d, DashboardEvents)
       /\ mounted' = mounted \cup {d}
  /\ UNCHANGED <<runVars, emitted, received, contentVars, chunkVars, shell>>

\* isActive turns false or the dashboard leaves the screen: the cleanup runs
DashboardUnmount ==
  /\ \E d \in mounted :
       /\ listeners' = unsubscribe(listeners, d, DashboardEvents)
       /\ mounted' = mounted \ {d}
  /\ UNCHANGED <<runVars, emitted, received, contentVars, chunkVars, shell>>

\* emit(event, data): nothing without an array for the name, else every
\* callback of the array is called before emit returns
EmitterEmit ==
  /\ Len(emitted) < MaxEmits
  /\ \E event \in EmittedEvents :
       /\ emitted' = Append(emitted, [event |-> event, mounted |-> mounted])
       /\ received' = IF event \in DOMAIN listeners
                      THEN forEach(listeners[event], received, Len(emitted) + 1)
                      ELSE received
  /\ UNCHANGED <<runVars, listeners, mounted, contentVars, chunkVars, shell>>

\* ------------------------------------------------------------------- events

\* an argument of emit(); url 0 and msg <<>> stand for fields the event lacks
Ev(type, url, n, m, msg) ==
  [type |-> type, url |-> url, n |-> n, m |-> m, msg |-> msg, urls |-> <<>>]

\* an event whose payload lists addresses
EvUrls(type, n, m, us) ==
  [type |-> type, url |-> 0, n |-> n, m |-> m, msg |-> <<>>, urls |-> us]

\* a POST /crawl: the method issuing it, its batch number (0: none) and its urls
Post(path, batch, us) == [path |-> path, batch |-> batch, urls |-> us]

\* one entry of a results array: st is "ok" (success, with markdown text),
\* "fail" (success false) or "null"; content: the entry has a content field
Entry(u, st, content) == [url |-> u, st |-> st, content |-> content]

\* metadata.note is kept as its words; a CrawlResult that has not been made yet
NoResult == [status |-> "none", error |-> <<>>, crawl_type |-> "", note |-> <<>>,
             crawled |-> 0, attempted |-> 0, content |-> FALSE]

\* the object both catch blocks build: status 'failed' and an error text, no
\* content field
FailedResult(err) == [status |-> "failed", error |-> err, crawl_type |-> "", note |-> <<>>,
                      crawled |-> 0, attempted |-> 0, content |-> FALSE]

\* processMultipleResults: always 'completed', content '', pages saved on the side
processMultipleResults(rs, crawlType) ==
  [status |-> "completed", error |-> <<>>, crawl_type |-> crawlType,
   note |-> <<"Pages", "saved", "individually", "to", "database">>, crawled |-> Len(rs), attempted |-> Len(rs),
   content |-> FALSE]

\* processSingleResult: status: responseData.success ? 'completed' : 'failed', no error
\* field; content: the response carries extracted_content, markdown, cleaned_html or content
processSingleResult(success, content, crawlType) ==
  [status |-> IF success THEN "completed" ELSE "failed", error |-> <<>>,
   crawl_type |-> crawlType, note |-> <<>>, crawled |-> 0, attempted |-> 0, content |-> content]

\* createAggregatedResult: successfulResults = results.filter(r => r && r.content);
\* content is their contents joined, empty when there is none
createAggregatedResult(rs) ==
  [status |-> "completed", error |-> <<>>, crawl_type |-> "smart_site_aggregated",
   note |-> <<"Individual", "pages", "saved", "separately.",
            "This", "is", "an", "aggregated", "summary.">>,
   crawled |-> Cardinality({i \in DOMAIN rs : rs[i].st # "null" /\ rs[i].content}),
   attempted |-> Len(rs),
   content |-> \E i \in DOMAIN rs : rs[i].st # "null" /\ rs[i].content]

\* the service, the emitter and the table after construction
RunInit ==
  /\ cfg \in Configs
  /\ pc = "idle"
  /\ aborted = FALSE
  /\ events = <<>>
  /\ posts = <<>>
  /\ result = NoResult
  /\ settled = "pending"
  /\ nativeError = <<>>
  /\ urls = <<>>
  /\ batches = <<>>
  /\ batchIndex = 0
  /\ retryCount = 0
  /\ batchSuccess = FALSE
  /\ allResults = <<>>
  /\ curResults = <<>>
  /\ resIdx = 0
  /\ pollAttempt = 0
  /\ lastPoll = "none"
  /\ results = <<>>
  /\ reqs = <<>>
  /\ floating = <<>>
  /\ store = EmptyBag
  /\ tasks = 0
  /\ gaveUp = {}
  /\ saveFailures = 0
  /\ app = "idle"
  /\ listeners = [e \in {} |-> <<>>]
  /\ mounted = {}
  /\ emitted = <<>>
  /\ received = [cb \in Callbacks |-> <<>>]

Init ==
  /\ RunInit
  /\ entry = NoFields
  /\ saved = NoPage
  /\ text = <<>>
  /\ maxTokens = DefaultMaxTokens
  /\ chunks = NotChunked
  /\ embed = NotEmbedded
  /\ shell = NotStarted

\* the state a continuation of the run reads and writes, as one record
Cur ==
  [pc |-> pc, events |-> events, posts |-> posts, result |-> result, settled |-> settled,
   nativeError |-> nativeError, urls |-> urls, batches |-> batches,
   batchIndex |-> batchIndex, retryCount |-> retryCount, batchSuccess |-> batchSuccess,
   allResults |-> allResults, curResults |-> curResults, resIdx |-> resIdx,
   pollAttempt |-> pollAttempt, lastPoll |-> lastPoll, results |-> results, reqs |-> reqs,
   floating |-> floating, tasks |-> tasks, gaveUp |-> gaveUp]

\* the continuation leaves the run in state s
Set(s) ==
  /\ pc' = s.pc
  /\ events' = s.events
  /\ posts' = s.posts
  /\ result' = s.result
  /\ settled' = s.settled
  /\ nativeError' = s.nativeError
  /\ urls' = s.urls
  /\ batches' = s.batches
  /\ batchIndex' = s.batchIndex
  /\ retryCount' = s.retryCount
  /\ batchSuccess' = s.batchSuccess
  /\ allResults' = s.allResults
  /\ curResults' = s.curResults
  /\ resIdx' = s.resIdx
  /\ pollAttempt' = s.pollAttempt
  /\ lastPoll' = s.lastPoll
  /\ results' = s.results
  /\ reqs' = s.reqs
  /\ floating' = s.floating
  /\ tasks' = s.tasks
  /\ gaveUp' = s.gaveUp

emit(s, ev) == [s EXCEPT !.events = Append(@, ev)]

\* --------------------------------------------------- persistence on the side

RECURSIVE NextSave(_, _)
\* saveIndividualPages' loop from entry i: the next entry it saves (a failed
\* entry is skipped), 0 when the loop ends or reads .success of a null entry
NextSave(rs, i) ==
  IF i > Len(rs) THEN 0
  ELSE IF rs[i].st = "null" THEN 0
  ELSE IF rs[i].st = "ok" THEN i
  ELSE NextSave(rs, i + 1)

\* this.saveIndividualPages(results), not awaited: the call runs to its first
\* upsert and goes on by itself; owner is the batch number it was started for
saveIndividualPages(s, owner, rs) ==
  IF NextSave(rs, 1) = 0 THEN s
  ELSE [s EXCEPT !.floating = Append(@, [owner |-> owner, rs |-> rs, i |-> NextSave(rs, 1)])]

\* generateEmbedding, had its error left saveCrawlResultAsDocument
generateEmbeddingUncaught(c) ==
  IF c.embeddings = "ok" THEN "vector" ELSE IF c.embeddings = "down" THEN "throw" ELSE "none"

\* the embedding step of saveCrawlResultAsDocument: a vector, or none when the
\* service is not configured or generateEmbedding threw (caught, logged)
generateEmbedding(c) ==
  IF c.embeddings = "ok" THEN "vector" ELSE "none"

\* the rows of crawled_pages under the key (url, chunk), without their counts
Row(rows, url, chunk) == {r \in BagToSet(rows) : r.url = url /\ r.chunk_number = chunk}

\* upsert, had it been a plain insert into a table without the unique constraint
upsertInsert(rows, document) == rows (+) SetToBag({document})

\* upsert(document, {onConflict: 'url,chunk_number'}) on a table with
\* UNIQUE(url, chunk_number): the row replaces what is stored under its key
upsert(rows, document) ==
  LET others == BagToSet(rows) \ Row(rows, document.url, document.chunk_number)
  IN [r \in others |-> rows[r]] (+) SetToBag({document})

\* supabaseService.saveCrawlResultAsDocument(crawlResult) returns: the document
\* is stored under its (url, chunk_number) key, with an embedding field only if
\* a vector was made, or the upsert failed; content tells a page's text from
\* the aggregated text of a summary
saveCrawlResultAsDocument(url, chunk, content, stored) ==
  LET embedding == generateEmbedding(cfg)
      document == [url |-> url, chunk_number |-> chunk, content |-> content,
                   embedding |-> embedding = "vector"]
  IN IF embedding = "throw"
     THEN UNCHANGED <<store, saveFailures>>
     ELSE /\ stored \/ saveFailures < MaxSaveFailures
          /\ store' = IF stored THEN upsert(store, document) ELSE store
          /\ saveFailures' = IF stored THEN saveFailures ELSE saveFailures + 1

\* an upsert of a saveIndividualPages call returns (stored, or caught and
\* logged); page_index i + 1 is the key's chunk_number
FloatingSaveDone ==
  /\ \E k \in DOMAIN floating, stored \in BOOLEAN :
       LET job == floating[k]
           next == NextSave(job.rs, job.i + 1)
       IN /\ saveCrawlResultAsDocument(job.rs[job.i].url, job.i, "page", stored)
          /\ floating' = IF next = 0
                         THEN SubSeq(floating, 1, k - 1) \o SubSeq(floating, k + 1, Len(floating))
                         ELSE [floating EXCEPT ![k].i = next]
  /\ UNCHANGED <<cfg, pc, aborted, events, posts, result, settled, nativeError,
                 batchVars, manualVars, tasks, gaveUp, app, emitterVars, contentVars, chunkVars, shell>>

\* ------------------------------------------------------------------ crawlUrl

\* the promise of crawlUrl resolves with res
Resolve(s, res) == [s EXCEPT !.pc = "done", !.result = res, !.settled = "resolved"]

\* the texts an error raised by the abort signal carries: the Error crawlUrl
\* and smartSiteCrawl throw, and axios's CanceledError
CancelMessages == { <<"Crawl was cancelled">>, <<"canceled">> }

\* crawlUrlCatch, had it told a cancellation from a failure in the status
crawlUrlCatchCancelled(s, msg) ==
  Resolve(emit(s, Ev("crawl_error", 0, 0, 0, msg)),
          [FailedResult(<<"Crawl service failed: ">> \o msg
                        \o <<". Please check service availability.">>)
             EXCEPT !.status = IF msg \in CancelMessages THEN "cancelled" ELSE "failed"])

\* the catch block of crawlUrl: emit crawl_error, return a failed result
crawlUrlCatch(s, msg) ==
  Resolve(emit(s, Ev("crawl_error", 0, 0, 0, msg)),
          FailedResult(<<"Crawl service failed: ">> \o msg
                       \o <<". Please check service availability.">>))

\* the user presses cancel (controller.abort()) or passes an aborted signal
Abort ==
  /\ pc # "done"
  /\ ~aborted
  /\ aborted' = TRUE
  /\ UNCHANGED <<cfg, pc, events, posts, result, settled, nativeError,
                 batchVars, manualVars, floating, store, tasks, gaveUp, saveFailures, app, emitterVars, contentVars, chunkVars, shell>>

\* crawlUrl up to its first await: two events, the first signal check, the
\* health check
crawlUrl(s) ==
  LET s1 == emit(emit(s, Ev("crawl_start", cfg.url, 0, 0, <<cfg.crawlType>>)),
                 Ev("status_update", 0, 0, 0, <<"discovering">>))
  IN IF aborted THEN crawlUrlCatch(s1, <<"Crawl was cancelled">>)
     ELSE [s1 EXCEPT !.pc = "health"]

Start ==
  /\ pc = "idle"
  /\ Set(crawlUrl(Cur))
  /\ UNCHANGED <<cfg, aborted, store, saveFailures, app, emitterVars, contentVars, chunkVars, shell>>

\* singlePageCrawl up to its POST
singlePageCrawl(s) ==
  [emit(s, Ev("status_update", 0, 0, 0, <<"crawling">>))
     EXCEPT !.posts = Append(@, Post("single", 0, <<cfg.url>>)), !.pc = "single_post"]

\* smartSiteCrawlNative up to its POST
smartSiteCrawlNative(s) ==
  [s EXCEPT !.posts = Append(@, Post("native", 0, <<cfg.url>>)), !.pc = "native_post"]

\* smartSiteCrawl up to its first await: a signal check, then the native strategy
smartSiteCrawl(s) ==
  IF aborted THEN crawlUrlCatch(s, <<"Crawl was cancelled">>)
  ELSE smartSiteCrawlNative(s)

\* crawlUrl after healthCheck() returned, had it not looked at the signal again
afterHealthCheckUnchecked(s, healthy) ==
  LET s1 == IF healthy THEN s
            ELSE emit(s, Ev("status_update", 0, 0, 0, <<"service_warning">>))
  IN IF cfg.crawlType = "single" THEN singlePageCrawl(s1)
     ELSE smartSiteCrawl(s1)

\* crawlUrl after healthCheck() returned (it never throws): a warning if the
\* check failed, the second signal check, then the mode's crawl
afterHealthCheck(s, healthy) ==
  LET s1 == IF healthy THEN s
            ELSE emit(s, Ev("status_update", 0, 0, 0, <<"service_warning">>))
  IN IF aborted THEN crawlUrlCatch(s1, <<"Crawl was cancelled">>)
     ELSE IF cfg.crawlType = "single" THEN singlePageCrawl(s1)
     ELSE smartSiteCrawl(s1)

HealthDone ==
  /\ pc = "health"
  /\ \E healthy \in BOOLEAN : Set(afterHealthCheck(Cur, healthy))
  /\ UNCHANGED <<cfg, aborted, store, saveFailures, app, emitterVars, contentVars, chunkVars, shell>>

\* ----------------------------------------------------------- singlePageCrawl

\* singlePageCrawl after its POST returned: url_crawled, crawl_complete, return
singlePageDone(s, res) ==
  Resolve(emit(emit(s, Ev("url_crawled", cfg.url, 0, 0, <<>>)),
               Ev("crawl_complete", 0, 1, IF res.status = "completed" THEN 1 ELSE 0, <<>>)),
          res)

\* the POST of singlePageCrawl throws: a transport error, or the abort signal
\* it was given fired
SinglePostThrows ==
  /\ pc = "single_post"
  /\ Set(crawlUrlCatch(Cur, IF aborted THEN <<"canceled">> ELSE <<"Network Error">>))
  /\ UNCHANGED <<cfg, aborted, store, saveFailures, app, emitterVars, contentVars, chunkVars, shell>>

\* the POST of singlePageCrawl returns a results array: processMultipleResults
SingleResults ==
  /\ pc = "single_post"
  /\ ~aborted
  /\ \E st \in {"ok", "fail", "null"} :
       LET rs == <<Entry(cfg.url, st, cfg.contentField)>>
       IN Set(singlePageDone(saveIndividualPages([Cur EXCEPT !.curResults = rs], 0, rs),
                             processMultipleResults(rs, "single")))
  /\ UNCHANGED <<cfg, aborted, store, saveFailures, app, emitterVars, contentVars, chunkVars, shell>>

\* the POST of singlePageCrawl returns one result object without a results
\* array: processSingleResult
SingleObject ==
  /\ pc = "single_post"
  /\ ~aborted
  /\ \E success \in BOOLEAN, content \in BOOLEAN :
       Set(singlePageDone(Cur, processSingleResult(success, content, "single")))
  /\ UNCHANGED <<cfg, aborted, store, saveFailures, app, emitterVars, contentVars, chunkVars, shell>>

\* the POST of singlePageCrawl returns a task_id and no results: the handle
\* itself goes through processSingleResult, it has no success field
SingleTask ==
  /\ pc = "single_post"
  /\ ~aborted
  /\ cfg.taskHandles
  /\ tasks < MaxAsyncTasks
  /\ Set(singlePageDone([Cur EXCEPT !.tasks = @ + 1], processSingleResult(FALSE, FALSE, "single")))
  /\ UNCHANGED <<cfg, aborted, store, saveFailures, app, emitterVars, contentVars, chunkVars, shell>>

\* ------------------------------------------------------ intelligentBatchCrawl

\* the results arrays a POST /crawl for batch may return: one entry per
\* address, each crawled, failed or null
ResultPatterns(batch) ==
  { [i \in DOMAIN batch |-> Entry(batch[i], p[i], cfg.contentField)] :
      p \in { q \in [DOMAIN batch -> {"ok", "fail", "null"}] :
                Cardinality({i \in DOMAIN batch : q[i] = "null"}) <= MaxNullEntries } }

\* the results arrays a completed task may carry
TaskResultPatterns(batch) ==
  { [i \in DOMAIN batch |-> Entry(batch[i], "ok", cfg.contentField)], <<>> }

\* the end of intelligentBatchCrawl: crawl_complete and the aggregated result
batchCrawlDone(s) ==
  Resolve(emit(s, Ev("crawl_complete", 0, Len(s.urls), Len(s.allResults), <<>>)),
          createAggregatedResult(s.allResults))

\* afterBatch, had a batch that did not succeed ended the loop without a wait
afterBatchOnSuccess(s) ==
  IF s.batchIndex < Len(s.batches) - 1 /\ s.batchSuccess THEN [s EXCEPT !.pc = "b_cooloff"]
  ELSE batchCrawlDone(s)

\* behind the while loop of a batch: the cool-off wait, or the end after the
\* last batch
afterBatch(s) ==
  IF s.batchIndex < Len(s.batches) - 1 THEN [s EXCEPT !.pc = "b_cooloff"]
  ELSE batchCrawlDone(s)

\* batchAttempt, had the loop tested retryCount <= maxRetries
batchAttemptOneMore(s) ==
  IF s.retryCount <= cfg.maxRetries /\ ~s.batchSuccess
  THEN [s EXCEPT !.pc = "b_post",
                 !.posts = Append(@, Post("batch", s.batchIndex + 1, s.batches[s.batchIndex + 1]))]
  ELSE afterBatch(s)

\* while (retryCount < maxRetries && !batchSuccess): the next POST /crawl of
\* the batch, or the loop's exit
batchAttempt(s) ==
  IF s.retryCount < cfg.maxRetries /\ ~s.batchSuccess
  THEN [s EXCEPT !.pc = "b_post",
                 !.posts = Append(@, Post("batch", s.batchIndex + 1, s.batches[s.batchIndex + 1]))]
  ELSE afterBatch(s)

\* the body of the for loop for batchIndex k, up to its first await
startBatch(s, k) ==
  batchAttempt([emit(s, EvUrls("batch_start", k + 1, Len(s.batches), s.batches[k + 1]))
                  EXCEPT !.batchIndex = k, !.retryCount = 0, !.batchSuccess = FALSE])

\* batchCatch, had it left the for loop when a batch is given up
batchCatchBreak(s) ==
  IF s.retryCount + 1 < cfg.maxRetries
  THEN [s EXCEPT !.retryCount = @ + 1, !.pc = "b_retry_wait"]
  ELSE batchCrawlDone([s EXCEPT !.retryCount = @ + 1, !.gaveUp = @ \cup {s.batchIndex + 1}])

\* the catch block of an attempt: count it, wait and retry, or give the batch up
batchCatch(s) ==
  IF s.retryCount + 1 < cfg.maxRetries
  THEN [s EXCEPT !.retryCount = @ + 1, !.pc = "b_retry_wait"]
  ELSE batchAttempt([s EXCEPT !.retryCount = @ + 1, !.gaveUp = @ \cup {s.batchIndex + 1}])

RECURSIVE processResults(_, _, _)
\* for (const result of response.data.results) from entry i, up to the next
\* awaited save, the TypeError of a null entry, or batchSuccess = true
processResults(s, rs, i) ==
  IF i > Len(rs) THEN batchAttempt([s EXCEPT !.batchSuccess = TRUE])
  ELSE IF rs[i].st = "null" THEN batchCatch(s)
  ELSE IF rs[i].st = "ok"
       THEN [emit(s, Ev("url_crawled", rs[i].url, 0, 0, <<>>))
               EXCEPT !.pc = "b_save", !.curResults = rs, !.resIdx = i]
       ELSE processResults(emit(s, Ev("url_failed", rs[i].url, 0, 0, <<>>)), rs, i + 1)

\* intelligentBatchCrawl(urls, ...) up to its first await
intelligentBatchCrawl(s, us) ==
  LET bs == splitBatches(us, cfg.maxBatchSize, 0)
      s1 == emit([s EXCEPT !.urls = us, !.batches = bs, !.allResults = <<>>],
                 Ev("batch_info", 0, Len(us), Len(bs), <<>>))
  IN IF bs = <<>> THEN batchCrawlDone(s1) ELSE startBatch(s1, 0)

\* the batch's POST throws, or returns neither results nor a task_id
\* ('Unexpected response format')
BatchPostFails ==
  /\ pc = "b_post"
  /\ Set(batchCatch(Cur))
  /\ UNCHANGED <<cfg, aborted, store, saveFailures, app, emitterVars, contentVars, chunkVars, shell>>

\* the batch's POST returns a results array
BatchResults ==
  /\ pc = "b_post"
  /\ \E rs \in ResultPatterns(batches[batchIndex + 1]) : Set(processResults(Cur, rs, 1))
  /\ UNCHANGED <<cfg, aborted, store, saveFailures, app, emitterVars, contentVars, chunkVars, shell>>

\* await this.saveIndividualPage(result) returns (stored under chunk 1, or the
\* error caught and logged); allResults.push(result); on with the loop
BatchSaveDone ==
  /\ pc = "b_save"
  /\ \E stored \in BOOLEAN :
       /\ saveCrawlResultAsDocument(curResults[resIdx].url, 1, "page", stored)
       /\ Set(processResults([Cur EXCEPT !.allResults = Append(@, curResults[resIdx])],
                             curResults, resIdx + 1))
  /\ UNCHANGED <<cfg, aborted, app, emitterVars, contentVars, chunkVars, shell>>

\* the retry back-off (coolOffDelay * retryCount) is over
RetryWaitDone ==
  /\ pc = "b_retry_wait"
  /\ Set(batchAttempt(Cur))
  /\ UNCHANGED <<cfg, aborted, store, saveFailures, app, emitterVars, contentVars, chunkVars, shell>>

\* the cool-off between two batches is over
CoolOffDone ==
  /\ pc = "b_cooloff"
  /\ Set(startBatch(Cur, batchIndex + 1))
  /\ UNCHANGED <<cfg, aborted, store, saveFailures, app, emitterVars, contentVars, chunkVars, shell>>

\* the batch's POST returns a task_id and no results: pollForResults starts
BatchTask ==
  /\ pc = "b_post"
  /\ cfg.taskHandles
  /\ tasks < MaxAsyncTasks
  /\ Set([Cur EXCEPT !.pc = "b_poll", !.pollAttempt = 1, !.lastPoll = "none", !.tasks = @ + 1])
  /\ UNCHANGED <<cfg, aborted, store, saveFailures, app, emitterVars, contentVars, chunkVars, shell>>

\* the answers GET /task/{id} may give: the task's status or state is
\* completed, failed or anything else, or the call itself throws
PollAnswers == {"completed", "failed", "pending", "error"}

\* pollForResults, had it gone on polling behind a completed answer
pollForResultsDeaf(attempt, answer) ==
  IF attempt < DefaultMaxAttempts THEN "again" ELSE "throw"

\* pollForResults, had its loop allowed one attempt more
pollForResultsOneMore(attempt, answer) ==
  IF answer = "completed" THEN "return"
  ELSE IF attempt <= DefaultMaxAttempts THEN "again"
  ELSE "throw"

\* pollForResults, what the answer to attempt number attempt leads to. A
\* completed answer returns processResponse(result). A failed answer throws
\* 'Task failed' inside the loop's try and a transport error is thrown there
\* too: the loop's own catch waits 2 s and goes on, or throws 'Polling failed
\* after ...' on the last attempt. Any other answer waits 2 s and goes on,
\* 'Polling timed out' behind the last attempt
pollForResults(attempt, answer) ==
  IF answer = "completed" THEN "return"
  ELSE IF attempt < DefaultMaxAttempts THEN "again"
  ELSE "throw"

\* the poller of the batch's task got answer: its next status query, or its
\* error in the attempt's catch, or returned, which is the state it returns to
pollAgain(s, answer, returned) ==
  LET then == pollForResults(s.pollAttempt, answer)
  IN IF then = "return" THEN returned
     ELSE IF then = "again" THEN [s EXCEPT !.pollAttempt = @ + 1, !.lastPoll = answer]
     ELSE batchCatch([s EXCEPT !.pollAttempt = 0, !.lastPoll = answer])

\* a status query of the batch's task is answered, not with completed
BatchPollAgain ==
  /\ pc = "b_poll"
  /\ \E answer \in PollAnswers \ {"completed"} : Set(pollAgain(Cur, answer, Cur))
  /\ UNCHANGED <<cfg, aborted, store, saveFailures, app, emitterVars, contentVars, chunkVars, shell>>

\* pollForResults returns processResponse(result) of a completed task with a
\* results array: the pages are saved on the side, the summary's metadata has
\* no crawled_urls and response.data.results is missing: 'Unexpected response
\* format'
BatchPollResults ==
  /\ pc = "b_poll"
  /\ \E rs \in TaskResultPatterns(batches[batchIndex + 1]) :
       Set(pollAgain(Cur, "completed",
                     batchCatch(saveIndividualPages(
                       [Cur EXCEPT !.pollAttempt = 0, !.lastPoll = "completed"],
                       batchIndex + 1, rs))))
  /\ UNCHANGED <<cfg, aborted, store, saveFailures, app, emitterVars, contentVars, chunkVars, shell>>

\* pollForResults returns processSingleResult of a completed task without a
\* results array: the batch succeeded if the task's metadata has crawled_urls,
\* else 'Unexpected response format'
BatchPollObject ==
  /\ pc = "b_poll"
  /\ \E crawledUrls \in BOOLEAN :
       LET s1 == [Cur EXCEPT !.pollAttempt = 0, !.lastPoll = "completed"]
       IN Set(pollAgain(Cur, "completed",
                        IF crawledUrls THEN batchAttempt([s1 EXCEPT !.batchSuccess = TRUE])
                        ELSE batchCatch(s1)))
  /\ UNCHANGED <<cfg, aborted, store, saveFailures, app, emitterVars, contentVars, chunkVars, shell>>

\* ------------------------------------------------------- smartSiteCrawlManual

RECURSIVE skippedEvents(_, _)
\* the url_skipped events the filter callback emits, in the order of urls
skippedEvents(us, base) ==
  IF us = <<>> THEN <<>>
  ELSE (IF FilterVerdict(Head(us), base) \in {"file_extension", "low_value_pattern"}
        THEN <<Ev("url_skipped", Head(us), 0, 0, <<FilterVerdict(Head(us), base)>>)>>
        ELSE <<>>) \o skippedEvents(Tail(us), base)

\* the catch block of smartSiteCrawlManual: a failed result is returned, not thrown
smartSiteCrawlManualCatch(s, msg) ==
  Resolve(s, FailedResult(<<"Smart crawl failed: ">> \o msg))

\* the catch block of smartSiteCrawl around the manual strategy
bothFailed(s, manualMsg) ==
  Resolve(s, FailedResult(<<"All crawl methods failed. Native: ">> \o s.nativeError
                          \o <<". Manual: ">> \o manualMsg))

\* smartSiteCrawlManual up to the POST of discoverUrls
smartSiteCrawlManual(s) ==
  [emit(s, Ev("status_update", 0, 0, 0, <<"discovering">>))
     EXCEPT !.posts = Append(@, Post("discover", 0, <<cfg.url>>)), !.pc = "discover_post"]

\* smartSiteCrawlFallback without its signal check
smartSiteCrawlFallbackUnchecked(s) == smartSiteCrawlManual(s)

\* the catch block of smartSiteCrawl around the native strategy: a signal
\* check, then the manual strategy
smartSiteCrawlFallback(s) ==
  IF aborted THEN crawlUrlCatch(s, <<"Crawl was cancelled">>)
  ELSE smartSiteCrawlManual(s)

\* the catch block of smartSiteCrawlNative: the error is wrapped and re-thrown
smartSiteCrawlNativeCatch(s, msg) ==
  smartSiteCrawlFallback([s EXCEPT !.nativeError = <<"Native deep crawl failed: ">> \o msg])

RECURSIVE manualPosts(_, _, _)
\* batch.map(async url => ...): every call runs to its POST, in order
manualPosts(batch, number, i) ==
  IF i > Len(batch) THEN <<>>
  ELSE <<Post("manual", number, <<batch[i]>>)>> \o manualPosts(batch, number, i + 1)

\* the number (from 1) of the batch crawlManyWithBatching is at, i / batchSize + 1
manualBatchNumber(s) == (Len(s.results) \div ManualBatchSize) + 1

\* the end of smartSiteCrawlManual: createAggregatedResult(crawlResults, url)
manualDone(s) == Resolve(s, createAggregatedResult(s.results))

RECURSIVE saveMultiplePages(_, _)
\* for (const result of results) await this.saveIndividualPage(result), from
\* entry i up to the next upsert; an entry without success is skipped
saveMultiplePages(s, i) ==
  IF i > Len(s.results) THEN manualDone(s)
  ELSE IF s.results[i].st = "ok" THEN [s EXCEPT !.pc = "m_save", !.resIdx = i]
  ELSE saveMultiplePages(s, i + 1)

\* the for loop of crawlManyWithBatching at i = results.length: the next batch's
\* requests, or behind the loop the saves
manualBatch(s) ==
  LET i == Len(s.results)
      batch == Slice(s.urls, i, i + ManualBatchSize)
  IN IF i < Len(s.urls)
     THEN [s EXCEPT !.pc = "m_batch",
                    !.posts = @ \o manualPosts(batch, manualBatchNumber(s), 1),
                    !.reqs = [k \in DOMAIN batch |->
                                [st |-> "post", attempt |-> 0, res |-> Entry(batch[k], "fail", FALSE)]]]
     ELSE saveMultiplePages(s, 1)

\* smartSiteCrawlManual behind discoverUrls: filter, prioritize, crawl
manualAfterDiscovery(s, discovered) ==
  IF ~Parses(cfg.url) THEN smartSiteCrawlManualCatch(s, <<"Invalid URL">>)
  ELSE manualBatch([s EXCEPT !.events = @ \o skippedEvents(discovered, cfg.url),
                             !.urls = filterAndPrioritizeUrls(discovered, cfg.url, cfg.maxUrls),
                             !.results = <<>>])

\* the POST of discoverUrls throws: discovery_error, the seed alone
DiscoverThrows ==
  /\ pc = "discover_post"
  /\ Set(manualAfterDiscovery(emit(Cur, Ev("discovery_error", 0, 0, 0, <<"Network Error">>)),
                              <<cfg.url>>))
  /\ UNCHANGED <<cfg, aborted, store, saveFailures, app, emitterVars, contentVars, chunkVars, shell>>

\* the POST of discoverUrls returns: urls_discovered with the seed and the links
DiscoverLinks ==
  /\ pc = "discover_post"
  /\ \E links \in LinkLists :
       LET allUrls == Dedup(<<cfg.url>> \o links, {})
       IN Set(manualAfterDiscovery(
                emit(Cur, EvUrls("urls_discovered", Len(allUrls), Len(links), allUrls)),
                allUrls))
  /\ UNCHANGED <<cfg, aborted, store, saveFailures, app, emitterVars, contentVars, chunkVars, shell>>

\* the POST of discoverUrls returns a task_id and no results: the handle has
\* no links, urls_discovered with the seed alone
DiscoverTask ==
  /\ pc = "discover_post"
  /\ cfg.taskHandles
  /\ tasks < MaxAsyncTasks
  /\ Set(manualAfterDiscovery(
           emit([Cur EXCEPT !.tasks = @ + 1], EvUrls("urls_discovered", 1, 0, <<cfg.url>>)),
           <<cfg.url>>))
  /\ UNCHANGED <<cfg, aborted, store, saveFailures, app, emitterVars, contentVars, chunkVars, shell>>

\* a request of the running batch is settled with entry res
settle(s, k, res) == [s EXCEPT !.reqs[k] = [st |-> "done", attempt |-> 0, res |-> res]]

\* a URL's POST throws (caught: a failed record) or returns a result
ManualUrlDone ==
  /\ pc = "m_batch"
  /\ \E k \in DOMAIN reqs, st \in {"ok", "fail"} :
       /\ reqs[k].st = "post"
       /\ Set(settle(Cur, k, Entry(reqs[k].res.url, st, st = "ok" /\ cfg.contentField)))
  /\ UNCHANGED <<cfg, aborted, store, saveFailures, app, emitterVars, contentVars, chunkVars, shell>>

\* a URL's POST returns a task_id and no results: pollForResults starts
ManualUrlTask ==
  /\ pc = "m_batch"
  /\ cfg.taskHandles
  /\ tasks < MaxAsyncTasks
  /\ \E k \in DOMAIN reqs :
       /\ reqs[k].st = "post"
       /\ Set([Cur EXCEPT !.reqs[k].st = "poll", !.reqs[k].attempt = 1, !.tasks = @ + 1])
  /\ UNCHANGED <<cfg, aborted, store, saveFailures, app, emitterVars, contentVars, chunkVars, shell>>

\* the poller of request k got answer: its next status query, or its error
\* in the URL's own catch (a failed record), or returned, which is the state
\* it returns to
manualPollAgain(s, k, answer, returned) ==
  LET then == pollForResults(s.reqs[k].attempt, answer)
  IN IF then = "return" THEN returned
     ELSE IF then = "again" THEN [s EXCEPT !.reqs[k].attempt = @ + 1]
     ELSE settle(s, k, Entry(s.reqs[k].res.url, "fail", FALSE))

\* a status query of a URL's task is answered, not with completed
ManualPollAgain ==
  /\ pc = "m_batch"
  /\ \E k \in DOMAIN reqs, answer \in PollAnswers \ {"completed"} :
       /\ reqs[k].st = "poll"
       /\ Set(manualPollAgain(Cur, k, answer, Cur))
  /\ UNCHANGED <<cfg, aborted, store, saveFailures, app, emitterVars, contentVars, chunkVars, shell>>

\* pollForResults for a URL returns the summary of a completed task with a
\* results array: a CrawlResult with content '' and no success field; the
\* pages are saved on the side
ManualPollResults ==
  /\ pc = "m_batch"
  /\ \E k \in DOMAIN reqs :
       /\ reqs[k].st = "poll"
       /\ \E rs \in TaskResultPatterns(<<reqs[k].res.url>>) :
            Set(manualPollAgain(Cur, k, "completed",
                  settle(saveIndividualPages(Cur, manualBatchNumber(Cur), rs),
                         k, Entry(reqs[k].res.url, "polled", FALSE))))
  /\ UNCHANGED <<cfg, aborted, store, saveFailures, app, emitterVars, contentVars, chunkVars, shell>>

\* pollForResults for a URL returns processSingleResult of a completed task: a
\* CrawlResult with its content and no success field
ManualPollObject ==
  /\ pc = "m_batch"
  /\ \E k \in DOMAIN reqs, content \in BOOLEAN :
       /\ reqs[k].st = "poll"
       /\ Set(manualPollAgain(Cur, k, "completed",
                settle(Cur, k, Entry(reqs[k].res.url, "polled", content))))
  /\ UNCHANGED <<cfg, aborted, store, saveFailures, app, emitterVars, contentVars, chunkVars, shell>>

\* Promise.all(batchPromises) resolves: results.push(...batchResults), then
\* the delay before the next batch, or behind the last batch the saves
ManualBatchDone ==
  /\ pc = "m_batch"
  /\ \A k \in DOMAIN reqs : reqs[k].st = "done"
  /\ LET s1 == [Cur EXCEPT !.results = @ \o [k \in DOMAIN reqs |-> reqs[k].res], !.reqs = <<>>]
     IN Set(IF Len(s1.results) < Len(urls) THEN [s1 EXCEPT !.pc = "m_delay"]
            ELSE saveMultiplePages(s1, 1))
  /\ UNCHANGED <<cfg, aborted, store, saveFailures, app, emitterVars, contentVars, chunkVars, shell>>

\* the delay between two batches of crawlManyWithBatching is over
ManualDelayDone ==
  /\ pc = "m_delay"
  /\ Set(manualBatch(Cur))
  /\ UNCHANGED <<cfg, aborted, store, saveFailures, app, emitterVars, contentVars, chunkVars, shell>>

\* await this.saveIndividualPage(result) of saveMultiplePages returns
ManualSaveDone ==
  /\ pc = "m_save"
  /\ \E stored \in BOOLEAN :
       /\ saveCrawlResultAsDocument(results[resIdx].url, 1, "page", stored)
       /\ Set(saveMultiplePages(Cur, resIdx + 1))
  /\ UNCHANGED <<cfg, aborted, app, emitterVars, contentVars, chunkVars, shell>>

\* ------------------------------------------------------- smartSiteCrawlNative

\* processResponse(initialResponse.data, url, 'native_deep_crawl'): the seed
\* page alone is the result
nativeSinglePage(s, rs) ==
  Resolve(saveIndividualPages(s, 0, rs), processMultipleResults(rs, "native_deep_crawl"))

\* smartSiteCrawlNative behind its POST, for a response with results[0] and
\* the links.internal array links
nativeAfterSeed(s, rs, links) ==
  LET internalLinks == HttpOnly(links)
      allUrls == <<cfg.url>> \o internalLinks
      prioritizedUrls == filterAndPrioritizeUrls(allUrls, cfg.url, cfg.maxUrls)
  IN IF links = <<>> THEN nativeSinglePage(s, rs)
     ELSE IF ~Parses(cfg.url) THEN smartSiteCrawlNativeCatch(s, <<"Invalid URL">>)
     ELSE IF Len(prioritizedUrls) > 1
          THEN intelligentBatchCrawl([s EXCEPT !.events = @ \o skippedEvents(allUrls, cfg.url)],
                                     prioritizedUrls)
          ELSE nativeSinglePage([s EXCEPT !.events = @ \o skippedEvents(allUrls, cfg.url)], rs)

\* the native POST throws
NativeThrows ==
  /\ pc = "native_post"
  /\ Set(smartSiteCrawlNativeCatch(Cur, <<"Network Error">>))
  /\ UNCHANGED <<cfg, aborted, store, saveFailures, app, emitterVars, contentVars, chunkVars, shell>>

\* the native POST returns success false or no results[0]
NativeInitialFailed ==
  /\ pc = "native_post"
  /\ Set(smartSiteCrawlNativeCatch(Cur, <<"Initial page crawl failed">>))
  /\ UNCHANGED <<cfg, aborted, store, saveFailures, app, emitterVars, contentVars, chunkVars, shell>>

\* the native POST returns a task_id and no results: the handle has neither
\* success nor results[0], 'Initial page crawl failed'
NativeTask ==
  /\ pc = "native_post"
  /\ cfg.taskHandles
  /\ tasks < MaxAsyncTasks
  /\ Set(smartSiteCrawlNativeCatch([Cur EXCEPT !.tasks = @ + 1], <<"Initial page crawl failed">>))
  /\ UNCHANGED <<cfg, aborted, store, saveFailures, app, emitterVars, contentVars, chunkVars, shell>>

\* the native POST returns the seed's result with its links
NativeSeed ==
  /\ pc = "native_post"
  /\ \E links \in LinkLists, st \in {"ok", "fail"} :
       Set(nativeAfterSeed(Cur, <<Entry(cfg.url, st, cfg.contentField)>>, links))
  /\ UNCHANGED <<cfg, aborted, store, saveFailures, app, emitterVars, contentVars, chunkVars, shell>>

\* ------------------------------------------------------- App.handleCrawl

\* text.includes(sub), on texts kept as their words
includes(note, sub) ==
  \E i \in 0..(Len(note) - Len(sub)) : \A j \in DOMAIN sub : note[i + j] = sub[j]

\* handleCrawl after crawlUrl returned: the result goes to the database if it
\* has content and its note does not say the pages were saved individually
HandleCrawlResult ==
  /\ pc = "done"
  /\ app = "idle"
  /\ LET hasContent == result.content
         isAlreadySaved == includes(result.note, <<"saved", "individually">>)
     IN app' = IF hasContent /\ ~isAlreadySaved THEN "saving" ELSE "done"
  /\ UNCHANGED <<cfg, pc, aborted, events, posts, result, settled, nativeError,
                 batchVars, manualVars, floating, store, tasks, gaveUp, saveFailures, emitterVars, contentVars, chunkVars, shell>>

\* the upsert handleCrawl awaits returns (stored, or caught and logged): the
\* result has no page_index, its key is (result.url, 1)
HandleCrawlSaveDone ==
  /\ app = "saving"
  /\ \E stored \in BOOLEAN :
       saveCrawlResultAsDocument(cfg.url, 1,
         IF result.crawl_type = "smart_site_aggregated" THEN "aggregated" ELSE "page", stored)
  /\ app' = "done"
  /\ UNCHANGED <<cfg, pc, aborted, events, posts, result, settled, nativeError,
                 batchVars, manualVars, floating, tasks, gaveUp, emitterVars, contentVars, chunkVars, shell>>

\* ------------------------------------------------------------ specification

Next ==
  \/ Abort
  \/ Start
  \/ HealthDone
  \/ SinglePostThrows
  \/ SingleResults
  \/ SingleObject
  \/ SingleTask
  \/ NativeThrows
  \/ NativeInitialFailed
  \/ NativeSeed
  \/ NativeTask
  \/ BatchPostFails
  \/ BatchResults
  \/ BatchSaveDone
  \/ RetryWaitDone
  \/ CoolOffDone
  \/ BatchTask
  \/ BatchPollAgain
  \/ BatchPollResults
  \/ BatchPollObject
  \/ DiscoverThrows
  \/ DiscoverLinks
  \/ DiscoverTask
  \/ ManualUrlDone
  \/ ManualUrlTask
  \/ ManualPollAgain
  \/ ManualPollResults
  \/ ManualPollObject
  \/ ManualBatchDone
  \/ ManualDelayDone
  \/ ManualSaveDone
  \/ FloatingSaveDone
  \/ HandleCrawlResult
  \/ HandleCrawlSaveDone

Spec == Init /\ [][Next]_vars

\* the emitter and its observers by themselves, for any order of emit() calls
EmitterNext ==
  \/ DashboardMount
  \/ DashboardUnmount
  \/ EmitterEmit

\* no crawl is running: the run stays in the initial state of one configuration
EmitterInit ==
  /\ Init
  /\ cfg.crawlType = "single"
  /\ cfg.url = 1

EmitterSpec == EmitterInit /\ [][EmitterNext]_vars

\* the paths that turn a result entry into a stored page, for any entry
ContentNext ==
  \/ ContentSaveIndividualPage
  \/ ContentSaveIndividualPages
  \/ ContentProcessSingleResult

ContentInit ==
  /\ RunInit
  /\ cfg.crawlType = "single"
  /\ cfg.url = 1
  /\ entry \in Entries
  /\ saved = NoPage
  /\ text = <<>>
  /\ maxTokens = DefaultMaxTokens
  /\ chunks = NotChunked
  /\ embed = NotEmbedded
  /\ shell = NotStarted

ContentSpec == ContentInit /\ [][ContentNext]_vars

ChunkInit ==
  /\ RunInit
  /\ cfg.crawlType = "single"
  /\ cfg.url = 1
  /\ entry = NoFields
  /\ saved = NoPage
  /\ text \in Texts(MaxTextLen)
  /\ maxTokens \in 1..MaxTokenBound
  /\ chunks = NotChunked
  /\ embed = NotEmbedded
  /\ shell = NotStarted

\* chunkText by itself, for any text and token bound
ChunkSpec == ChunkInit /\ [][ChunkText]_vars

EmbedInit ==
  /\ RunInit
  /\ cfg.crawlType = "single"
  /\ cfg.url = 1
  /\ entry = NoFields
  /\ saved = NoPage
  /\ text \in Texts(MaxTextLen - 1)
  /\ maxTokens \in 1..MaxTokenBound
  /\ chunks = NotChunked
  /\ embed = NotEmbedded
  /\ shell = NotStarted

EmbedNext == ChunkText \/ EmbeddingsCreate \/ AverageEmbeddings \/ SingleEmbedding

\* generateEmbedding by itself, for any text, with the bound of its chunkText
\* call scaled down to the texts
EmbedSpec == EmbedInit /\ [][EmbedNext]_vars

ShellInit ==
  /\ Init
  /\ cfg.crawlType = "single"
  /\ cfg.url = 1

ShellNext ==
  \/ HandleCrawl
  \/ HandleCrawlResolved
  \/ HandleCrawlFinally
  \/ HandleCancelCrawl

\* the buttons of App and the handleCrawl calls they start, each crawlUrl call
\* taken as a promise that resolves at some time
ShellSpec == ShellInit /\ [][ShellNext]_vars

\* ------------------------------------------------------------------ properties

Last(s) == s[Len(s)]

\* sub occurs in s as a run of consecutive elements
Contains(s, sub) ==
  \E i \in 0..(Len(s) - Len(sub)) : \A j \in DOMAIN sub : s[i + j] = sub[j]

\* the manual strategy has been started: discoverUrls has issued its POST
ManualStarted == \E i \in DOMAIN posts : posts[i].path = "discover"

\* the run ended because the abort signal fired: its result carries the text
\* of the cancellation error
Cancelled ==
  pc = "done" /\ aborted /\ \E m \in CancelMessages : Contains(result.error, m)

\* C1: the promise of crawlUrl never rejects, and a result of status 'failed'
\* always carries an error message
C1_FailedHasMessage ==
  /\ settled # "rejected"
  /\ pc = "done" => settled = "resolved"
  /\ result.status = "failed" => result.error # <<>>

\* C2: the manual strategy comes behind the native one, it is started at the
\* step the native strategy fails and only if the signal is not aborted then,
\* and a run whose manual strategy went through ends completed, never with
\* the error of both strategies
C2_State ==
  /\ \A i \in DOMAIN posts :
       posts[i].path \in {"discover", "manual"} =>
         /\ nativeError # <<>>
         /\ \E j \in 1..(i - 1) : posts[j].path = "native"
  /\ (pc = "done" /\ ManualStarted /\ Parses(cfg.url)) =>
       /\ result.status = "completed"
       /\ result.error = <<>>
       /\ result.crawl_type = "smart_site_aggregated"
  /\ result.error # <<>> => Head(result.error) # "All crawl methods failed. Native: "

C2_Step ==
  /\ (nativeError = <<>> /\ nativeError' # <<>>) => (ManualStarted' <=> ~aborted)
  /\ (~ManualStarted /\ ManualStarted') =>
       (nativeError = <<>> /\ nativeError' # <<>> /\ ~aborted)

C3_CombinedError ==
  (pc = "done" /\ ManualStarted /\ result.status = "failed") =>
    /\ Contains(result.error, nativeError)
    /\ Contains(result.error, <<"Invalid URL">>)

\* p is the first request of a batch later than every batch ps has a request of
LaterBatch(p, ps) ==
  /\ p.path \in {"batch", "manual"}
  /\ \A j \in DOMAIN ps : ps[j].path = p.path => ps[j].batch < p.batch

\* the batch scheduler of either strategy is at work on a batch
BatchInFlight ==
  pc \in {"b_post", "b_poll", "b_save", "b_retry_wait", "b_cooloff", "m_batch", "m_delay"}

\* C4: once the signal is aborted while a batch is in flight, no step of the
\* run starts a further batch: it emits no batch_start and issues no POST for
\* a later batch
C4_Step ==
  (aborted /\ BatchInFlight) =>
    /\ \A i \in (Len(events) + 1)..Len(events') : events'[i].type # "batch_start"
    /\ \A i \in (Len(posts) + 1)..Len(posts') : ~LaterBatch(posts'[i], posts)

C4_NoBatchAfterAbort == [][C4_Step]_vars

Ceil(n, k) == (n + k - 1) \div k

\* the POSTs crawlManyWithBatching has issued, in order
ManualPosts == SelectSeq(posts, LAMBDA p : p.path = "manual")

\* the POSTs intelligentBatchCrawl has issued for batch k
BatchPosts(k) == SelectSeq(posts, LAMBDA p : p.path = "batch" /\ p.batch = k)

\* C6: the batches are the input cut in order into ceil(N / K) runs of at
\* most K addresses, every address in exactly one of them: K the configured
\* size in intelligentBatchCrawl, 5 in crawlManyWithBatching, whose j-th
\* request is for the j-th address, in batch ceil(j / 5)
C6_Partition ==
  /\ batches # <<>> =>
       /\ Len(batches) = Ceil(Len(urls), cfg.maxBatchSize)
       /\ \A i \in DOMAIN batches : Len(batches[i]) \in 1..cfg.maxBatchSize
       /\ Flatten(batches) = urls
  /\ \A j \in DOMAIN ManualPosts :
       /\ j <= Len(urls)
       /\ ManualPosts[j].urls = <<urls[j]>>
       /\ ManualPosts[j].batch = Ceil(j, ManualBatchSize)
  /\ (pc = "done" /\ ManualStarted /\ Parses(cfg.url)) => Len(ManualPosts) = Len(urls)

C6_Witness ==
  /\ Len(batches) = 2
  /\ Len(batches[1]) = cfg.maxBatchSize
  /\ Len(batches[2]) < cfg.maxBatchSize
  /\ BatchPosts(2) # <<>>

\* C7: a request of a batch is issued only when every request and every page
\* save of the batches before it has finished
C7_Sequential ==
  /\ \A i \in DOMAIN posts, k \in DOMAIN floating :
       (posts[i].path \in {"batch", "manual"} /\ floating[k].owner >= 1) =>
         floating[k].owner >= posts[i].batch
  /\ \A i \in DOMAIN ManualPosts :
       ManualPosts[i].batch > 1 =>
         Len(results) >= (ManualPosts[i].batch - 1) * ManualBatchSize
  /\ \A i \in DOMAIN posts :
       posts[i].path = "batch" => posts[i].batch <= batchIndex + 1

\* C8: a batch of intelligentBatchCrawl given up after its attempts all failed
\* has had exactly maxRetries POSTs, and no batch ever has more
C8_ExactlyMaxRetries ==
  /\ \A k \in gaveUp : Len(BatchPosts(k)) = cfg.maxRetries
  /\ \A k \in DOMAIN batches : Len(BatchPosts(k)) <= cfg.maxRetries

C8_Witness ==
  /\ cfg.maxRetries = 3
  /\ 1 \in gaveUp
  /\ Len(BatchPosts(1)) = 3

\* a continuation of the batch schedulers, of either strategy
SchedulerStep ==
  \/ BatchPostFails \/ BatchResults \/ BatchSaveDone \/ RetryWaitDone \/ CoolOffDone
  \/ BatchPollAgain \/ BatchPollResults \/ BatchPollObject
  \/ ManualUrlDone \/ ManualPollAgain \/ ManualPollResults \/ ManualPollObject
  \/ ManualBatchDone \/ ManualDelayDone \/ ManualSaveDone

\* a record of a failed address is among the results of crawlManyWithBatching
ManualFailure == \E i \in DOMAIN results : results[i].st = "fail"

C10_FailedRecorded ==
  /\ \A k \in gaveUp : \A i \in DOMAIN batches[k] :
       \E j \in DOMAIN events :
         /\ events[j].type \in {"url_crawled", "url_failed"}
         /\ events[j].url = batches[k][i]
  /\ (pc = "done" /\ batches # <<>>) =>
       \A j \in DOMAIN events :
         events[j].type = "url_failed" =>
           \E i \in DOMAIN allResults :
             allResults[i].url = events[j].url /\ allResults[i].st = "fail"

\* the step emits batch_start for batch n
NewBatchStart(n) ==
  \E i \in (Len(events) + 1)..Len(events') :
    events'[i].type = "batch_start" /\ events'[i].n = n

\* the step issues a request of crawlManyWithBatching for batch n
NewManualPost(n) ==
  \E i \in (Len(posts) + 1)..Len(posts') :
    posts'[i].path = "manual" /\ posts'[i].batch = n

\* C11, one step: a batch after the first is started only by the step that
\* ends a cool-off wait, and that step starts the next batch; a wait begins
\* only behind a batch that is not the last; the scheduler ends only behind
\* the last batch. The same for the delay of crawlManyWithBatching
C11_Step ==
  /\ \A n \in 2..Len(batches') :
       NewBatchStart(n) =>
         (pc = "b_cooloff" /\ n = batchIndex + 2 /\ batchIndex' = batchIndex + 1)
  /\ (pc = "b_cooloff" /\ events' # events) => NewBatchStart(batchIndex + 2)
  /\ (pc' = "b_cooloff" /\ (pc # "b_cooloff" \/ batchIndex' # batchIndex)) =>
       batchIndex' < Len(batches') - 1
  /\ (pc' = "done" /\ pc # "done" /\ batches' # <<>>) => batchIndex' = Len(batches') - 1
  /\ \A n \in 2..Len(urls') : NewManualPost(n) => pc = "m_delay"
  /\ (pc = "m_delay" /\ posts' # posts) => NewManualPost(Ceil(Len(results), ManualBatchSize) + 1)
  /\ (pc' = "m_delay" /\ pc # "m_delay") => Len(results') < Len(urls')
  /\ (pc = "m_batch" /\ pc' \in {"m_save", "done"}) => Len(results') = Len(urls')

\* C11, a finished run of intelligentBatchCrawl: each of its B batches was
\* started once, so B - 1 cool-off waits were made
C11_State ==
  (pc = "done" /\ batches # <<>>) =>
    \A k \in DOMAIN batches :
      Cardinality({i \in DOMAIN events :
                     events[i].type = "batch_start" /\ events[i].n = k}) = 1

C12_PersistedAsProduced ==
  saveFailures = 0 =>
    /\ \A i \in DOMAIN allResults : Row(store, allResults[i].url, 1) # {}
    /\ \A i \in DOMAIN ManualPosts :
         \A j \in 1..((ManualPosts[i].batch - 1) * ManualBatchSize) :
           (j <= Len(results) /\ results[j].st = "ok") => Row(store, results[j].url, 1) # {}

C14_StopsOnFailed ==
  lastPoll = "failed" => (pc # "b_poll" /\ pollAttempt = 0)

\* C15, a state: a poller is at most at its maxAttempts-th status query
C15_State ==
  /\ pollAttempt \in 0..DefaultMaxAttempts
  /\ \A k \in DOMAIN reqs : reqs[k].attempt \in 0..DefaultMaxAttempts
  /\ pc = "b_poll" => pollAttempt >= 1
  /\ (pc = "b_poll" /\ pollAttempt > 1) => lastPoll \in PollAnswers \ {"completed"}

\* C15, a step: an answer other than completed and failed before the last
\* attempt leads to the next status query, and on the last attempt to the
\* poller's error, which the batch's attempt counts as its failure
C15_Step ==
  (pc = "b_poll" /\ lastPoll' = "pending" /\ <<pollAttempt, lastPoll>> # <<pollAttempt', lastPoll'>>) =>
    IF pollAttempt < DefaultMaxAttempts
    THEN pc' = "b_poll" /\ pollAttempt' = pollAttempt + 1
    ELSE pc' # "b_poll" /\ pollAttempt' = 0 /\ retryCount' = retryCount + 1

\* C15: pollForResults issues at most maxAttempts status queries, takes an
\* answer other than completed and failed as still running, and fails behind
\* maxAttempts such answers instead of polling again
C15_Bounded == []C15_State /\ [][C15_Step]_vars

C15_Witness ==
  /\ lastPoll = "pending"
  /\ pc # "b_poll"
  /\ pollAttempt = 0
  /\ batchIndex + 1 \in gaveUp

\* C16: a POST /crawl answered with a task handle leads to the poller: the
\* step that receives the handle starts pollForResults for it
C16_Step ==
  tasks' = tasks + 1 =>
    \/ pc' = "b_poll" /\ pollAttempt' = 1
    \/ \E k \in DOMAIN reqs' : reqs'[k].st = "poll" /\ reqs[k].st = "post"

C16_HandlePolled == [][C16_Step]_vars

\* the events of type t, in order
EventsOf(t) == SelectSeq(events, LAMBDA e : e.type = t)

\* C17: a single-page run that got an answer to its POST has issued one POST
\* /crawl, its result is completed exactly if the page of the answer was
\* crawled successfully, failed otherwise, and crawl_complete counts 1 of 1
\* exactly if the result is completed
C17_SinglePage ==
  (cfg.crawlType = "single" /\ pc = "done" /\ EventsOf("crawl_complete") # <<>>) =>
    /\ Len(posts) = 1
    /\ posts[1].path = "single"
    /\ result.status \in {"completed", "failed"}
    /\ curResults # <<>> => (result.status = "completed" <=> curResults[1].st = "ok")
    /\ EventsOf("crawl_complete")[1].n = 1
    /\ EventsOf("crawl_complete")[1].m = 1 <=> result.status = "completed"

\* C18: the summary of a smart-site run counts as attempted the addresses
\* handed to the batch scheduler, and its success rate is the share of them
\* crawled successfully: a defined value from 0 to 100
C18_SuccessRate ==
  (pc = "done" /\ result.crawl_type = "smart_site_aggregated") =>
    /\ result.attempted = Len(urls)
    /\ result.attempted > 0
    /\ result.crawled <= result.attempted

NoEmbeddings == cfg.embeddings \in {"down", "unconfigured"}

\* C20: without embeddings no stored row has an embedding field, and as long
\* as no upsert has failed every page the batch scheduler collected, and at
\* the end of a manual run every page crawled successfully, has its row
C20_StoredWithoutEmbedding ==
  NoEmbeddings =>
    /\ \A r \in BagToSet(store) : ~r.embedding
    /\ saveFailures = 0 =>
         /\ \A i \in DOMAIN allResults : Row(store, allResults[i].url, 1) # {}
         /\ (pc = "done" /\ ManualStarted) =>
              \A j \in DOMAIN results :
                results[j].st = "ok" => Row(store, results[j].url, 1) # {}

\* a page is stored while the embeddings service is down
C20_Witness ==
  /\ cfg.embeddings = "down"
  /\ saveFailures = 0
  /\ allResults # <<>>
  /\ \E r \in BagToSet(store) : r.content = "page" /\ ~r.embedding

\* the number of rows stored under the key (url, chunk)
RowCount(rows, url, chunk) == BagCardinality([r \in Row(rows, url, chunk) |-> rows[r]])

\* the keys of the rows stored
Keys(rows) == {<<r.url, r.chunk_number>> : r \in BagToSet(rows)}

\* C21: the store holds at most one row per (url, chunk_number), and saving
\* again a row that is stored leaves the store as it is
C21_OneRowPerKey ==
  /\ \A k \in Keys(store) : RowCount(store, k[1], k[2]) = 1
  /\ \A r \in BagToSet(store) : upsert(store, r) = store

\* a retried batch has saved the page of one address twice, and the summary
\* was saved under the key of a page
C21_Witness ==
  /\ saveFailures = 0
  /\ \E i, j \in DOMAIN allResults : i # j /\ allResults[i].url = allResults[j].url
  /\ app = "done"
  /\ \E r \in BagToSet(store) : r.content = "aggregated"

\* the url_crawled and url_failed events emitted for address u
OutcomeEvents(u) ==
  SelectSeq(events, LAMBDA e : e.type \in {"url_crawled", "url_failed"} /\ e.url = u)

\* C22: a request of a batch, of either scheduler, has a batch_start event of
\* that batch before it, and an address a scheduler has resolved has exactly
\* one url_crawled or url_failed event
C22_BatchEvents ==
  /\ \A i \in DOMAIN posts :
       posts[i].path \in {"batch", "manual"} =>
         \E j \in DOMAIN events : events[j].type = "batch_start" /\ events[j].n = posts[i].batch
  /\ \A i \in DOMAIN allResults : Len(OutcomeEvents(allResults[i].url)) = 1
  /\ (pc = "done" /\ ManualStarted) =>
       \A k \in DOMAIN results : Len(OutcomeEvents(results[k].url)) = 1

\* C23: every url_crawled, url_skipped or url_failed event has before it a
\* urls_discovered event whose list holds the event's address
C23_DiscoveredFirst ==
  \A j \in DOMAIN events :
    events[j].type \in {"url_crawled", "url_skipped", "url_failed"} =>
      \E i \in 1..(j - 1) :
        events[i].type = "urls_discovered" /\ events[j].url \in Range(events[i].urls)

\* the emit() calls made for event while dashboard d was mounted, in order
EmittedFor(d, event) ==
  SelectIdx(emitted, {e \in Range(emitted) : e.event = event /\ d \in e.mounted}, 1)

\* C24: a handler of a dashboard has been called, once each and in emission
\* order, for exactly the emit() calls of its event name made while the
\* dashboard was subscribed
C24_DeliveredWhileRegistered ==
  \A cb \in Callbacks : received[cb] = EmittedFor(cb[1], cb[2])

\* a handler missed a call made before its dashboard subscribed, got the next
\* one, and missed one made after the cleanup
C24_Witness ==
  \E d \in Dashboards :
    /\ Len(emitted) = 3
    /\ \A i \in 1..3 : emitted[i].event = "url_crawled"
    /\ d \notin emitted[1].mounted
    /\ d \in emitted[2].mounted
    /\ d \notin emitted[3].mounted
    /\ received[<<d, "url_crawled">>] = <<2>>

\* C25: no address occurs twice in the list filterAndPrioritizeUrls returned
C25_NoDuplicates ==
  \A i, j \in DOMAIN urls : i # j => urls[i] # urls[j]

\* C26: every address of the list filterAndPrioritizeUrls returned has the
\* host of the base address, and the list is no longer than the configured
\* maximum number of pages
C26_SameHostAndBounded ==
  /\ \A i \in DOMAIN urls : UrlTable[urls[i]].host = UrlTable[cfg.url].host
  /\ Len(urls) <= cfg.maxUrls

\* a list cut to the maximum of 2, from links of which one was on another
\* host and one a login page
C26_Witness ==
  /\ cfg.maxUrls = 2
  /\ Len(urls) = 2
  /\ \E i \in DOMAIN events : events[i].type = "url_skipped" /\ events[i].url = 7

\* the keywords the priority key is said to reward
claimedKeywords == {"docs", "api", "guide", "tutorial", "blog", "product", "reference"}

\* the priority key as stated: the path depth, one less for a path with one
\* of the keywords
ClaimedKey(u) ==
  LET depth == Len(UrlTable[u].segs)
  IN IF \E i \in DOMAIN UrlTable[u].segs : UrlTable[u].segs[i] \in claimedKeywords
     THEN depth - 1 ELSE depth

\* C27: the list filterAndPrioritizeUrls returned is in ascending order of the
\* stated priority key
C27_SortedByClaimedKey ==
  \A i, j \in DOMAIN urls : i < j => ClaimedKey(urls[i]) <= ClaimedKey(urls[j])

\* the relative link of the address table and the address it stands for on a
\* page of ex.com
RelativeLink == CHOOSE u \in UrlIds : UrlTable[u].str = "/rel"
RelativeLinkResolved == CHOOSE u \in UrlIds : UrlTable[u].str = "https://ex.com/rel"

\* C28: when the links discovered on a page of the base's host hold a relative
\* link and the list was not cut, the list filterAndPrioritizeUrls returned
\* holds the address the link resolves to
C28_RelativeKept ==
  \A i \in DOMAIN events :
    ( /\ events[i].type = "urls_discovered"
      /\ RelativeLink \in Range(events[i].urls)
      /\ UrlTable[cfg.url].host = UrlTable[RelativeLinkResolved].host
      /\ Len(urls) < cfg.maxUrls )
    => RelativeLinkResolved \in Range(urls)

\* the first non-empty field of e in the stated order
ClaimedContent(e) ==
  Or(e.extracted_content, Or(e.raw_markdown, Or(e.fit_markdown,
     Or(e.cleaned_html, Or(e.content, e.html)))))

\* C29: whichever path stored the entry, the content stored is the first
\* non-empty of extracted-content, raw-markdown, fit-markdown, cleaned-HTML,
\* raw-content, raw-HTML
C29_ContentHierarchy ==
  saved # NoPage => saved.content = ClaimedContent(entry)

\* C30: every piece chunkText returned has an estimate of at most maxTokens,
\* unless it is a single word, a piece without whitespace, whose estimate
\* alone is above maxTokens
C30_PiecesWithinBound ==
  \A i \in DOMAIN chunks.pieces :
    \/ estimateTokens(chunks.pieces[i]) <= maxTokens
    \/ CountIn(chunks.pieces[i], Whitespace) = 0

\* the characters of t that are not whitespace, in order
NonWhitespace(t) == SelectSeq(t, LAMBDA c : c \notin Whitespace)

\* C31: the pieces chunkText returned, put one after the other, have the
\* non-whitespace characters of the text, in the text's order
C31_Lossless ==
  chunks.returned => NonWhitespace(Flatten(chunks.pieces)) = NonWhitespace(text)

\* C32: the array chunkText returned is not empty and none of its pieces is
\* empty after trimming
C32_NonEmpty ==
  chunks.returned =>
    /\ chunks.pieces # <<>>
    /\ \A i \in DOMAIN chunks.pieces : trim(chunks.pieces[i]) # <<>>

\* the i-th components of the vectors the requests were answered with, added
ComponentSum(i) ==
  LET RECURSIVE sum(_)
      sum(es) == IF es = <<>> THEN 0 ELSE Head(es)[i] + sum(Tail(es))
  IN sum(embed.chunkEmbeddings)

\* C33: when the text was cut into more than one piece and generateEmbedding
\* has returned, it sent one request per piece, in the order of the pieces,
\* and the vector it returned has the dimension of the answers and in every
\* component the sum of the answers' components divided by their number
C33_MeanOfPieces ==
  (embed.state = "returned" /\ Len(chunks.pieces) > 1) =>
    /\ embed.requests = chunks.pieces
    /\ Len(embed.chunkEmbeddings) = Len(chunks.pieces)
    /\ \A v \in Vectors : Len(embed.embedding) = Len(v)
    /\ \A i \in DOMAIN embed.embedding :
         /\ embed.embedding[i].den # 0
         /\ embed.embedding[i].num * Len(chunks.pieces) = ComponentSum(i) * embed.embedding[i].den

\* an average of three pieces' vectors that are not all the same has been returned
C33_Witness ==
  /\ embed.state = "returned"
  /\ Len(chunks.pieces) = 3
  /\ embed.chunkEmbeddings[1] # embed.chunkEmbeddings[2]
  /\ ComponentSum(1) = 3

\* the crawl_complete and crawl_error events emitted so far, in order
TerminalEvents == SelectSeq(events, LAMBDA e : e.type \in {"crawl_complete", "crawl_error"})

\* C34: when the promise of crawlUrl has settled, one crawl_complete or
\* crawl_error event has been emitted, and it is the last event
C34_OneTerminalEvent ==
  pc = "done" => (Len(TerminalEvents) = 1 /\ Last(events) = TerminalEvents[1])

\* the run has ended without a POST, its result failed with the text of the
\* cancellation in its error
EndedUnposted ==
  /\ pc = "done"
  /\ posts = <<>>
  /\ result.status = "failed"
  /\ Contains(result.error, <<"Crawl was cancelled">>)

C35_Step ==
  /\ (aborted /\ pc = "idle" /\ pc' # "idle") => EndedUnposted'
  /\ (aborted /\ pc = "health" /\ pc' # "health") => EndedUnposted'
  /\ EndedUnposted => EndedUnposted'

\* C35: a run called with the signal aborted ends at the call, without a health
\* check; a run whose signal is aborted when the health check returns ends
\* there; both end without a POST and none is issued later, with a failed
\* result whose error has the text of the cancellation
C35_AbortBeforeCrawl == [][C35_Step]_vars

\* a run has ended after a failed health check during which the signal was aborted
C35_Witness ==
  /\ EndedUnposted
  /\ \E i \in DOMAIN events : events[i].type = "status_update" /\ events[i].msg = <<"service_warning">>

C36_Step ==
  (pc = "b_poll" /\ lastPoll' = "completed") =>
    /\ pc' # "b_retry_wait"
    /\ (batchIndex + 1) \notin gaveUp'
    /\ ~(Len(posts') > Len(posts) /\ Last(posts').batch = batchIndex + 1)

\* C36: the step in which the task of a batch is answered completed does not
\* lead into the wait before a retry, does not give the batch up and does not
\* send the batch again
C36_CompletedTaskSucceeds == [][C36_Step]_vars

\* the native strategy has run the filter: a url_skipped event was emitted and
\* discoverUrls, the other caller of the filter, was not called
NativeFiltered ==
  /\ ~ManualStarted
  /\ \E i \in DOMAIN events : events[i].type = "url_skipped"

\* the POSTs intelligentBatchCrawl has issued
BatchesPosted == {i \in DOMAIN posts : posts[i].path = "batch"}

\* C37: with a retry limit above 0, once the native strategy has filtered the
\* seed and its links the seed, which the filter returns whatever the links
\* are, is among the addresses of a POST of intelligentBatchCrawl, and when
\* intelligentBatchCrawl has returned every address it was given is
C37_AllSubmitted ==
  cfg.maxRetries > 0 =>
    /\ NativeFiltered => \E i \in BatchesPosted : cfg.url \in Range(posts[i].urls)
    /\ (pc = "done" /\ ~ManualStarted) =>
         \A u \in Range(urls) : \E i \in BatchesPosted : u \in Range(posts[i].urls)

\* C38: every batch intelligentBatchCrawl has started (its batch_start event
\* is emitted in the step of its first attempt) has a POST /crawl
C38_AttemptedOnce ==
  ~ManualStarted =>
    \A j \in DOMAIN events :
      events[j].type = "batch_start" =>
        \E i \in BatchesPosted : posts[i].batch = events[j].n

\* successRate of crawl_complete: Math.round(successful / total * 100), 0 for
\* no addresses
successRate(successful, total) ==
  IF total > 0 THEN (successful * 200 + total) \div (2 * total) ELSE 0

\* how many entries of the sequence of results rs are for address u
EntriesFor(rs, u) == Len(SelectSeq(rs, LAMBDA r : r.url = u))

\* C39: the accumulated results of intelligentBatchCrawl have no more entries
\* for an address than the list of addresses has, and a crawl_complete event
\* reports no more successful addresses than addresses and a rate within 0..100
C39_NoPageTwice ==
  /\ ~ManualStarted =>
       \A u \in UrlIds : EntriesFor(allResults, u) <= Len(SelectSeq(urls, LAMBDA v : v = u))
  /\ \A j \in DOMAIN events :
       events[j].type = "crawl_complete" =>
         /\ events[j].m <= events[j].n
         /\ successRate(events[j].m, events[j].n) \in 0..100

\* the crawlUrl calls of App whose promise has not resolved
InFlight == {r \in DOMAIN shell.runs : shell.runs[r].stage = "crawlUrl"}

\* C40: at most one crawlUrl call of App is unresolved, and isCrawling is true
\* while one is
C40_OneRunInFlight ==
  /\ Cardinality(InFlight) <= 1
  /\ InFlight # {} => shell.isCrawling

====
